---- MODULE Spec2Model ----
(***************************************************************************)
(* JR-Foxy moderation bot: the warning ledger with its escalation to an    *)
(* automatic ban, the candidate admission workflow, and the DB-backed task *)
(* scheduler.  Every DB statement is one atomic step (SQLite serialises    *)
(* statements); a handler is a sequence of such steps and of platform      *)
(* calls, and several handlers run interleaved.                            *)
(***************************************************************************)
EXTENDS Integers, Sequences, FiniteSets, TLC

(* ---------------------------------------------------------------------- *)
(* Bounds of the model                                                     *)
(* ---------------------------------------------------------------------- *)
MaxWarnings == 3
MaxTicks == 1
MaxTasks == 2

(* ---------------------------------------------------------------------- *)
(* Program constants                                                       *)
(* ---------------------------------------------------------------------- *)
WARN_EXPIRY_DAYS == 30
SecondsPerDay == 86400
BanThreshold == 3
WarnMinLevel == 3

InviteMinLevel == 2
FetchLimit == 30
ReviewDelay == 3 * 60 * 60
WaitDelay == 36 * 60 * 60
ReceptionChat == 100
InviteLink == 1
PromptMsg == 1

NULL == 0 - 1

\* the user the warn / unwarn commands aim at, and another user whose warning
\* is in the ledger from the start
Users == {1}
OtherUser == 2
Moderator == 10
ModeratorLevel == 4

WProcs == {1, 2}

\* the user who passes through the reception chat
CandUsers == {1}
IProcs == {1, 2}
Pollers == {1, 2}

VARIABLES
    now,        \* time.time(), in seconds
    ticks,      \* how often the clock has advanced
    warnings,   \* table warnings, in id order
    wlock,      \* holder of SQLite's write lock (0: free)
    wp,         \* the running warn / unwarn handlers
    banned,     \* users banned in the chat by the platform
    candidates, \* table candidates, a set of rows
    tasks,      \* table scheduled_tasks, in id order
    member,     \* the platform's membership status in the reception chat
    ih,         \* the running handlers of handlers/invite.py
    sp          \* the scheduler loops

wvars == <<warnings, wlock, wp, banned>>
ivars == <<candidates, tasks, member, ih, sp>>
vars == <<now, ticks, warnings, wlock, wp, banned, candidates, tasks, member, ih, sp>>

(* ---------------------------------------------------------------------- *)
(* services/warnings.py                                                    *)
(* ---------------------------------------------------------------------- *)
_expiry_ts(issued_at) == issued_at + WARN_EXPIRY_DAYS * SecondsPerDay

IsActive(w, now_ts) == (~w.is_revoked) /\ w.expires_at > now_ts

\* SELECT COUNT(*) ... WHERE user_id = ? AND is_revoked = 0 AND expires_at > ?
RECURSIVE CountFrom(_, _, _, _)
CountFrom(tbl, i, user_id, now_ts) ==
    IF i > Len(tbl) THEN 0
    ELSE (IF tbl[i].user_id = user_id /\ IsActive(tbl[i], now_ts) THEN 1 ELSE 0)
         + CountFrom(tbl, i + 1, user_id, now_ts)

count_active_warnings(tbl, user_id, now_ts) == CountFrom(tbl, 1, user_id, now_ts)

ActiveIds(tbl, user_id, now_ts) ==
    {i \in 1 .. Len(tbl) : tbl[i].user_id = user_id /\ IsActive(tbl[i], now_ts)}

Older(tbl, i, j) ==
    \/ tbl[i].issued_at < tbl[j].issued_at
    \/ (tbl[i].issued_at = tbl[j].issued_at /\ tbl[i].id < tbl[j].id)

Newer(tbl, i, j) ==
    \/ tbl[i].issued_at > tbl[j].issued_at
    \/ (tbl[i].issued_at = tbl[j].issued_at /\ tbl[i].id > tbl[j].id)

SelectLatestUnrevoked(tbl, user_id, now_ts) ==
    LET ids == {i \in 1 .. Len(tbl) : tbl[i].user_id = user_id /\ ~tbl[i].is_revoked}
    IN  IF ids = {} THEN NULL
        ELSE CHOOSE i \in ids : \A j \in ids \ {i} : Newer(tbl, i, j)

SelectLatestOfUser(tbl, user_id, now_ts) ==
    LET ids == {i \in 1 .. Len(tbl) : tbl[i].user_id = user_id}
    IN  IF ids = {} THEN NULL
        ELSE CHOOSE i \in ids : \A j \in ids \ {i} : Newer(tbl, i, j)

\* SELECT ... WHERE user_id = ? AND is_revoked = 0 AND expires_at > ?
\* ORDER BY issued_at DESC, id DESC LIMIT 1: the id of the row, or NULL
SelectLatestActive(tbl, user_id, now_ts) ==
    LET ids == ActiveIds(tbl, user_id, now_ts)
    IN  IF ids = {} THEN NULL
        ELSE CHOOSE i \in ids : \A j \in ids \ {i} : Newer(tbl, i, j)

\* the ledger at the start: one warning of another user
InitialLedger ==
    <<[id |-> 1, user_id |-> OtherUser, issued_at |-> 0,
       expires_at |-> _expiry_ts(0), issued_by |-> Moderator,
       issued_by_level |-> ModeratorLevel, is_revoked |-> FALSE,
       revoked_at |-> NULL, revoked_by |-> NULL]>>

\* a create_warning call from its clock reading to the handler's use of the count
WarnInFlight == {"w_begin", "w_insert", "w_count", "w_commit", "w_enforce"}

\* a handler of handlers/warnings.py: its position, the command it serves
\* (actor, the actor's level as read, target, the target's is_bot, the reason
\* words) and the locals of the service call
IdleProc ==
    [pc |-> "idle", target |-> 0, now_ts |-> 0, wid |-> NULL, cnt |-> 0,
     tried |-> FALSE, trig |-> FALSE, dist |-> FALSE,
     cmd |-> "", actor |-> 0, level |-> 0, is_bot |-> FALSE, reason |-> <<>>]

\* warn_handler up to the call of create_warning, and create_warning's
\* issued_at = _now_ts()
WarnStart(p) ==
    /\ wp[p].pc = "idle"
    /\ Len(warnings) < Len(InitialLedger) + MaxWarnings
    /\ ModeratorLevel >= WarnMinLevel
    /\ \E target \in Users :
          wp' = [wp EXCEPT ![p] = [IdleProc EXCEPT !.pc = "w_begin",
                                                   !.target = target,
                                                   !.now_ts = now,
                                                   !.cmd = "warn",
                                                   !.actor = Moderator,
                                                   !.level = ModeratorLevel,
                                                   !.reason = <<"flood">>]]
    /\ UNCHANGED <<now, ticks, warnings, wlock, banned, ivars>>

BeginNoLock(p, from, to) ==
    /\ wp[p].pc = from
    /\ wlock' = p
    /\ wp' = [wp EXCEPT ![p].pc = to]
    /\ UNCHANGED <<now, ticks, warnings, banned, ivars>>

\* BEGIN IMMEDIATE: takes the write lock, waits while another holds it
BeginImmediate(p, from, to) ==
    /\ wp[p].pc = from
    /\ wlock = 0
    /\ wlock' = p
    /\ wp' = [wp EXCEPT ![p].pc = to]
    /\ UNCHANGED <<now, ticks, warnings, banned, ivars>>

WarnBegin(p) == BeginImmediate(p, "w_begin", "w_insert")

\* INSERT INTO warnings ... ; SELECT last_insert_rowid()
WarnInsert(p) ==
    /\ wp[p].pc = "w_insert"
    /\ LET id == Len(warnings) + 1
           row == [id |-> id, user_id |-> wp[p].target,
                   issued_at |-> wp[p].now_ts,
                   expires_at |-> _expiry_ts(wp[p].now_ts),
                   issued_by |-> wp[p].actor, issued_by_level |-> wp[p].level,
                   is_revoked |-> FALSE, revoked_at |-> NULL, revoked_by |-> NULL]
       IN  /\ warnings' = Append(warnings, row)
           /\ wp' = [wp EXCEPT ![p].pc = "w_count", ![p].wid = id]
    /\ UNCHANGED <<now, ticks, wlock, banned, ivars>>

CountStepFreshNow(p, from, to) ==
    /\ wp[p].pc = from
    /\ wp' = [wp EXCEPT ![p].pc = to,
                        ![p].cnt = count_active_warnings(warnings, wp[p].target, now)]
    /\ UNCHANGED <<now, ticks, warnings, wlock, banned, ivars>>

\* active_count = await count_active_warnings(user_id, db=db, now=issued_at)
CountStep(p, from, to) ==
    /\ wp[p].pc = from
    /\ wp' = [wp EXCEPT ![p].pc = to,
                        ![p].cnt = count_active_warnings(warnings, wp[p].target,
                                                         wp[p].now_ts)]
    /\ UNCHANGED <<now, ticks, warnings, wlock, banned, ivars>>

WarnCount(p) == CountStep(p, "w_count", "w_commit")

\* await db.commit(): ends the transaction and releases the lock
CommitStep(p, from, to) ==
    /\ wp[p].pc = from
    /\ wlock' = (IF wlock = p THEN 0 ELSE wlock)
    /\ wp' = [wp EXCEPT ![p].pc = to]
    /\ UNCHANGED <<now, ticks, warnings, banned, ivars>>

WarnCommit(p) == CommitStep(p, "w_commit", "w_enforce")

(* ---------------------------------------------------------------------- *)
(* services/punishments.py                                                 *)
(* ---------------------------------------------------------------------- *)
enforce_warning_ban_off_by_one(active_count, platform_ok) ==
    IF active_count <= BanThreshold THEN <<FALSE, FALSE>>
    ELSE IF ~platform_ok THEN <<TRUE, FALSE>>
    ELSE <<TRUE, TRUE>>

\* enforce_warning_ban: <<ban_chat_member was called, the value returned>>;
\* platform_ok says whether ban_chat_member returns or raises
enforce_warning_ban(active_count, platform_ok) ==
    IF active_count < BanThreshold THEN <<FALSE, FALSE>>
    ELSE IF ~platform_ok THEN <<TRUE, FALSE>>
    ELSE <<TRUE, TRUE>>

WarnEnforceUndoesOnFailure(p) ==
    /\ wp[p].pc = "w_enforce"
    /\ \E platform_ok \in BOOLEAN :
         LET r == IF wp[p].cnt >= BanThreshold
                  THEN enforce_warning_ban(wp[p].cnt, platform_ok)
                  ELSE <<FALSE, FALSE>>
         IN  /\ wp' = [wp EXCEPT ![p].pc = "w_end", ![p].tried = r[1],
                                 ![p].trig = r[2]]
             /\ banned' = (IF r[1] /\ platform_ok
                           THEN banned \cup {wp[p].target} ELSE banned)
             /\ warnings' = (IF r[1] /\ ~platform_ok
                             THEN [warnings EXCEPT ![wp[p].wid].is_revoked = TRUE]
                             ELSE warnings)
    /\ UNCHANGED <<now, ticks, wlock, ivars>>

\* warn_handler after create_warning: if active_count >= 3: enforce_warning_ban
WarnEnforce(p) ==
    /\ wp[p].pc = "w_enforce"
    /\ \E platform_ok \in BOOLEAN :
         LET r == IF wp[p].cnt >= BanThreshold
                  THEN enforce_warning_ban(wp[p].cnt, platform_ok)
                  ELSE <<FALSE, FALSE>>
         IN  /\ wp' = [wp EXCEPT ![p].pc = "w_end", ![p].tried = r[1],
                                 ![p].trig = r[2]]
             /\ banned' = (IF r[1] /\ platform_ok
                           THEN banned \cup {wp[p].target} ELSE banned)
    /\ UNCHANGED <<now, ticks, warnings, wlock, ivars>>

(* ---------------------------------------------------------------------- *)
(* services/warnings.py: revoke_latest_warning; handlers/warnings.py       *)
(* ---------------------------------------------------------------------- *)
\* unwarn_handler up to the call of revoke_latest_warning, and its
\* now_ts = _now_ts()
UnwarnStart(p) ==
    /\ wp[p].pc = "idle"
    /\ ModeratorLevel >= WarnMinLevel
    /\ \E target \in Users :
          wp' = [wp EXCEPT ![p] = [IdleProc EXCEPT !.pc = "r_begin",
                                                   !.target = target,
                                                   !.now_ts = now,
                                                   !.cmd = "unwarn",
                                                   !.actor = Moderator,
                                                   !.level = ModeratorLevel]]
    /\ UNCHANGED <<now, ticks, warnings, wlock, banned, ivars>>

UnwarnBegin(p) == BeginImmediate(p, "r_begin", "r_select")

\* SELECT ... LIMIT 1; row = await cursor.fetchone()
RevokeSelect(p) ==
    /\ wp[p].pc = "r_select"
    /\ LET id == SelectLatestActive(warnings, wp[p].target, wp[p].now_ts)
       IN  wp' = [wp EXCEPT ![p].wid = id,
                            ![p].pc = IF id = NULL THEN "r_count" ELSE "r_update"]
    /\ UNCHANGED <<now, ticks, warnings, wlock, banned, ivars>>

RevokeUpdateAllActive(p) ==
    /\ wp[p].pc = "r_update"
    /\ warnings' = [i \in 1 .. Len(warnings) |->
                       IF i \in ActiveIds(warnings, wp[p].target, wp[p].now_ts)
                       THEN [warnings[i] EXCEPT !.is_revoked = TRUE,
                                                !.revoked_at = wp[p].now_ts,
                                                !.revoked_by = wp[p].actor]
                       ELSE warnings[i]]
    /\ wp' = [wp EXCEPT ![p].pc = "r_count"]
    /\ UNCHANGED <<now, ticks, wlock, banned, ivars>>

\* UPDATE warnings SET is_revoked = 1, revoked_at = ?, revoked_by = ? WHERE id = ?
RevokeUpdate(p) ==
    /\ wp[p].pc = "r_update"
    /\ warnings' = [warnings EXCEPT ![wp[p].wid].is_revoked = TRUE,
                                    ![wp[p].wid].revoked_at = wp[p].now_ts,
                                    ![wp[p].wid].revoked_by = wp[p].actor]
    /\ wp' = [q \in WProcs |->
                IF q = p THEN [wp[p] EXCEPT !.pc = "r_count"]
                ELSE IF wp[q].pc \in WarnInFlight /\ wp[q].target = wp[p].target
                     THEN [wp[q] EXCEPT !.dist = TRUE]
                     ELSE wp[q]]
    /\ UNCHANGED <<now, ticks, wlock, banned, ivars>>

RevokeCount(p) == CountStep(p, "r_count", "r_commit")

RevokeCommit(p) == CommitStep(p, "r_commit", "r_end")

\* warn_handler's end: _delete_command_on_success, the handler returns
WarnReturn(p) ==
    /\ wp[p].pc = "w_end"
    /\ wp' = [wp EXCEPT ![p] = IdleProc]
    /\ UNCHANGED <<now, ticks, warnings, wlock, banned, ivars>>

UnwarnReplyLiftsBan(p) ==
    /\ wp[p].pc = "r_end"
    /\ wp' = [wp EXCEPT ![p] = IdleProc]
    /\ banned' = (IF wp[p].wid # NULL /\ wp[p].cnt < BanThreshold
                  THEN banned \ {wp[p].target} ELSE banned)
    /\ UNCHANGED <<now, ticks, warnings, wlock, ivars>>

\* unwarn_handler after revoke_latest_warning: it replies and logs, and makes
\* no platform call about the ban
UnwarnReply(p) ==
    /\ wp[p].pc = "r_end"
    /\ wp' = [wp EXCEPT ![p] = IdleProc]
    /\ banned' = banned
    /\ UNCHANGED <<now, ticks, warnings, wlock, ivars>>

\* the clock, read at multiples of the validity window: a warning issued at t
\* is active at t and, expires_at > now being strict, expired at _expiry_ts(t)
WarnTickSteps == {_expiry_ts(0)}

Tick ==
    /\ ticks < MaxTicks
    /\ \E d \in WarnTickSteps : now' = now + d
    /\ ticks' = ticks + 1
    /\ UNCHANGED <<warnings, wlock, wp, banned, ivars>>

(* ---------------------------------------------------------------------- *)
(* core/db.py: candidates                                                  *)
(* ---------------------------------------------------------------------- *)
\* every call of handlers/invite.py passes INVITE_CHAT_ID as reception chat,
\* so a row's key (user_id, reception_chat_id) is given by its user_id
HasCandidate(tbl, user_id) == \E r \in tbl : r.user_id = user_id

NewCandidate(user_id, created_at, review_due_at) ==
    [user_id |-> user_id, status |-> "candidate", created_at |-> created_at,
     review_due_at |-> review_due_at, wait_count |-> 0,
     last_buttons_msg_id |-> NULL, reviewed_by |-> NULL, reviewed_at |-> NULL,
     invite_link |-> NULL]

upsert_keeps_link(tbl, user_id, review_due_at, created_at) ==
    IF HasCandidate(tbl, user_id)
    THEN {IF r.user_id = user_id
          THEN [r EXCEPT !.status = "candidate", !.review_due_at = review_due_at,
                         !.last_buttons_msg_id = NULL, !.reviewed_by = NULL,
                         !.reviewed_at = NULL]
          ELSE r : r \in tbl}
    ELSE tbl \cup {NewCandidate(user_id, created_at, review_due_at)}

upsert_replaces_row(tbl, user_id, review_due_at, created_at) ==
    {r \in tbl : r.user_id # user_id}
        \cup {NewCandidate(user_id, created_at, review_due_at)}

\* INSERT ... ON CONFLICT(user_id, reception_chat_id) DO UPDATE SET ...
upsert_candidate_on_join(tbl, user_id, review_due_at, created_at) ==
    IF HasCandidate(tbl, user_id)
    THEN {IF r.user_id = user_id
          THEN [r EXCEPT !.status = "candidate", !.review_due_at = review_due_at,
                         !.last_buttons_msg_id = NULL, !.reviewed_by = NULL,
                         !.reviewed_at = NULL, !.invite_link = NULL]
          ELSE r : r \in tbl}
    ELSE tbl \cup {NewCandidate(user_id, created_at, review_due_at)}

\* SELECT ... WHERE user_id=? AND reception_chat_id=?; only read when
\* HasCandidate holds (the row or None)
get_candidate(tbl, user_id) == CHOOSE r \in tbl : r.user_id = user_id

TakeNewValue(new, old) == new

\* COALESCE(?, column): the parameter unless it is NULL
COALESCE(new, old) == IF new # NULL THEN new ELSE old

\* UPDATE candidates SET status=?, reviewed_by=COALESCE(?, reviewed_by), ...
update_candidate_status(tbl, user_id, status, reviewed_by, reviewed_at, invite_link) ==
    {IF r.user_id = user_id
     THEN [r EXCEPT !.status = status,
                    !.reviewed_by = COALESCE(reviewed_by, @),
                    !.reviewed_at = COALESCE(reviewed_at, @),
                    !.invite_link = COALESCE(invite_link, @)]
     ELSE r : r \in tbl}

postpone_resets_status(tbl, user_id, review_due_at) ==
    {IF r.user_id = user_id
     THEN [r EXCEPT !.status = "candidate", !.review_due_at = review_due_at,
                    !.wait_count = @ + 1]
     ELSE r : r \in tbl}

postpone_keeps_count(tbl, user_id, review_due_at) ==
    {IF r.user_id = user_id THEN [r EXCEPT !.review_due_at = review_due_at]
     ELSE r : r \in tbl}

\* UPDATE candidates SET review_due_at=?, wait_count=wait_count+1 WHERE ...
postpone_candidate_review(tbl, user_id, review_due_at) ==
    {IF r.user_id = user_id
     THEN [r EXCEPT !.review_due_at = review_due_at, !.wait_count = @ + 1]
     ELSE r : r \in tbl}

\* UPDATE candidates SET last_buttons_msg_id=? WHERE ...
set_candidate_buttons_message(tbl, user_id, message_id) ==
    {IF r.user_id = user_id THEN [r EXCEPT !.last_buttons_msg_id = message_id]
     ELSE r : r \in tbl}

(* ---------------------------------------------------------------------- *)
(* core/db.py: scheduled_tasks                                             *)
(* ---------------------------------------------------------------------- *)
\* INSERT INTO scheduled_tasks ... VALUES (?, ?, 'pending', ?, ?, ?, 0, ?, ?)
schedule_task(tsk, task_type, run_at, chat_id, user_id) ==
    Append(tsk, [id |-> Len(tsk) + 1, task_type |-> task_type, run_at |-> run_at,
                 status |-> "pending", chat_id |-> chat_id, user_id |-> user_id,
                 tries |-> 0, last_error |-> ""])

CancelMatchesAnyStatus(t, task_type, chat_id, user_id) ==
    /\ t.task_type = task_type
    /\ (chat_id # NULL => t.chat_id = chat_id)
    /\ (user_id # NULL => t.user_id = user_id)

\* the WHERE clause cancel_pending_tasks builds (None: no condition)
CancelMatches(t, task_type, chat_id, user_id) ==
    /\ t.task_type = task_type
    /\ t.status = "pending"
    /\ (chat_id # NULL => t.chat_id = chat_id)
    /\ (user_id # NULL => t.user_id = user_id)

cancel_pending_as_done(tsk, task_type, chat_id, user_id) ==
    [i \in DOMAIN tsk |->
        IF CancelMatches(tsk[i], task_type, chat_id, user_id)
        THEN [tsk[i] EXCEPT !.status = "done"] ELSE tsk[i]]

\* UPDATE scheduled_tasks SET status='cancelled' WHERE ...
cancel_pending_tasks(tsk, task_type, chat_id, user_id) ==
    [i \in DOMAIN tsk |->
        IF CancelMatches(tsk[i], task_type, chat_id, user_id)
        THEN [tsk[i] EXCEPT !.status = "cancelled"] ELSE tsk[i]]

\* return cur.rowcount
cancel_pending_rowcount(tsk, task_type, chat_id, user_id) ==
    Cardinality({i \in DOMAIN tsk : CancelMatches(tsk[i], task_type, chat_id, user_id)})

DueIds(tsk, now_ts) ==
    {i \in DOMAIN tsk : tsk[i].status = "pending" /\ tsk[i].run_at <= now_ts}

EarlierIdOnly(tsk, i, j) == i < j

\* ORDER BY run_at ASC, id ASC
Earlier(tsk, i, j) ==
    \/ tsk[i].run_at < tsk[j].run_at
    \/ (tsk[i].run_at = tsk[j].run_at /\ i < j)

RECURSIVE OrderedIds(_, _, _)
OrderedIds(tsk, ids, limit) ==
    IF ids = {} \/ limit = 0 THEN <<>>
    ELSE LET first == CHOOSE i \in ids : \A j \in ids \ {i} : Earlier(tsk, i, j)
         IN  <<first>> \o OrderedIds(tsk, ids \ {first}, limit - 1)

fetch_any_status(tsk, now_ts, limit) ==
    OrderedIds(tsk, {i \in DOMAIN tsk : tsk[i].run_at <= now_ts}, limit)

\* SELECT ... WHERE status='pending' AND run_at<=? ORDER BY run_at ASC, id ASC
\* LIMIT ?: the ids of the rows returned
fetch_due_tasks(tsk, now_ts, limit) == OrderedIds(tsk, DueIds(tsk, now_ts), limit)

mark_task_running_unconditional(tsk, task_id) ==
    <<[tsk EXCEPT ![task_id].status = "running", ![task_id].tries = @ + 1], TRUE>>

\* UPDATE ... SET status='running', tries=tries+1 WHERE id=? AND
\* status='pending'; <<the table afterwards, cur.rowcount > 0>>
mark_task_running(tsk, task_id) ==
    IF tsk[task_id].status = "pending"
    THEN <<[tsk EXCEPT ![task_id].status = "running", ![task_id].tries = @ + 1], TRUE>>
    ELSE <<tsk, FALSE>>

\* UPDATE scheduled_tasks SET status='done' WHERE id=?
mark_task_done(tsk, task_id) == [tsk EXCEPT ![task_id].status = "done"]

mark_task_failed_retry(tsk, task_id, error_text) ==
    [tsk EXCEPT ![task_id].status = "pending", ![task_id].last_error = error_text]

\* UPDATE scheduled_tasks SET status='failed', last_error=? WHERE id=?
mark_task_failed(tsk, task_id, error_text) ==
    [tsk EXCEPT ![task_id].status = "failed", ![task_id].last_error = error_text]

(* ---------------------------------------------------------------------- *)
(* handlers/invite.py                                                      *)
(* ---------------------------------------------------------------------- *)
IdleHandler == [pc |-> "idle", user |-> 0, at |-> 0]

\* the handlers that are about to call schedule_task
Scheduling == {h \in IProcs : ih[h].pc \in {"j_cancel", "j_sched", "w_postpone",
                                             "w_cancel", "w_sched"}}

TasksRoom == Len(tasks) + Cardinality(Scheduling) < MaxTasks

IsCandidate(tbl, user_id) ==
    HasCandidate(tbl, user_id) /\ get_candidate(tbl, user_id).status = "candidate"

\* on_candidate_join_reception: the user joins the reception chat;
\* review_due_at = now + 3 * 60 * 60; upsert_candidate_on_join
JoinUpsert(h) ==
    /\ ih[h].pc = "idle"
    /\ TasksRoom
    /\ \E u \in CandUsers :
         /\ member[u] # "member"
         /\ member' = [member EXCEPT ![u] = "member"]
         /\ candidates' = upsert_candidate_on_join(candidates, u, now + ReviewDelay, now)
         /\ ih' = [ih EXCEPT ![h] = [pc |-> "j_cancel", user |-> u,
                                     at |-> now + ReviewDelay]]
    /\ UNCHANGED <<now, ticks, wvars, tasks, sp>>

\* cancel_pending_tasks("invite_review_due", chat_id=INVITE_CHAT_ID, user_id=...)
CancelStep(h, from, to) ==
    /\ ih[h].pc = from
    /\ tasks' = cancel_pending_tasks(tasks, "invite_review_due", ReceptionChat,
                                     ih[h].user)
    /\ ih' = [ih EXCEPT ![h] = IF to = "idle" THEN IdleHandler
                                ELSE [ih[h] EXCEPT !.pc = to]]
    /\ UNCHANGED <<now, ticks, wvars, candidates, member, sp>>

\* schedule_task("invite_review_due", run_at, INVITE_CHAT_ID, user_id); the
\* messages sent afterwards change no state
ScheduleStep(h, from) ==
    /\ ih[h].pc = from
    /\ tasks' = schedule_task(tasks, "invite_review_due", ih[h].at, ReceptionChat,
                              ih[h].user)
    /\ ih' = [ih EXCEPT ![h] = IdleHandler]
    /\ UNCHANGED <<now, ticks, wvars, candidates, member, sp>>

JoinCancelSkipped(h) ==
    /\ ih[h].pc = "j_cancel"
    /\ ih' = [ih EXCEPT ![h].pc = "j_sched"]
    /\ UNCHANGED <<now, ticks, wvars, candidates, tasks, member, sp>>

JoinCancel(h) == CancelStep(h, "j_cancel", "j_sched")

JoinSchedule(h) == ScheduleStep(h, "j_sched")

\* force_candidate_review: the level check, get_candidate, the status check,
\* and show_candidate_buttons' message.answer, which returns the sent message
\* or raises
ForceStart(h) ==
    /\ ih[h].pc = "idle"
    /\ ModeratorLevel >= InviteMinLevel
    /\ \E u \in CandUsers, sent \in BOOLEAN :
         /\ IsCandidate(candidates, u)
         /\ ih' = [ih EXCEPT ![h] = IF sent
                                    THEN [pc |-> "f_setmsg", user |-> u, at |-> 0]
                                    ELSE IdleHandler]
    /\ UNCHANGED <<now, ticks, wvars, candidates, tasks, member, sp>>

\* show_candidate_buttons: set_candidate_buttons_message
ForceSetMsg(h) ==
    /\ ih[h].pc = "f_setmsg"
    /\ candidates' = set_candidate_buttons_message(candidates, ih[h].user, PromptMsg)
    /\ ih' = [ih EXCEPT ![h].pc = "f_cancel"]
    /\ UNCHANGED <<now, ticks, wvars, tasks, member, sp>>

ForceCancel(h) == CancelStep(h, "f_cancel", "idle")

\* on_invite_callback: the chat and level checks, get_candidate, the status
\* check and reviewed_at = int(time.time()); for accept also
\* create_chat_invite_link, which returns a link or raises
CallbackStart(h) ==
    /\ ih[h].pc = "idle"
    /\ ModeratorLevel >= InviteMinLevel
    /\ \E u \in CandUsers, action \in {"accept", "reject", "wait"}, linked \in BOOLEAN :
         /\ IsCandidate(candidates, u)
         /\ action = "wait" => TasksRoom
         /\ ih' = [ih EXCEPT ![h] =
                      IF action = "accept" /\ ~linked THEN IdleHandler
                      ELSE [pc |-> CASE action = "accept" -> "a_update"
                                     [] action = "reject" -> "k_ban"
                                     [] OTHER -> "w_postpone",
                            user |-> u, at |-> now]]
    /\ UNCHANGED <<now, ticks, wvars, candidates, tasks, member, sp>>

\* accept: update_candidate_status(status="invited", reviewed_by, reviewed_at,
\* invite_link); the messages sent afterwards change no state
AcceptUpdate(h) ==
    /\ ih[h].pc = "a_update"
    /\ candidates' = update_candidate_status(candidates, ih[h].user, "invited",
                                             Moderator, ih[h].at, InviteLink)
    /\ ih' = [ih EXCEPT ![h] = IdleHandler]
    /\ UNCHANGED <<now, ticks, wvars, tasks, member, sp>>

RejectBanProceeds(h) ==
    /\ ih[h].pc = "k_ban"
    /\ \E ok \in BOOLEAN :
         /\ ih' = [ih EXCEPT ![h].pc = "k_update"]
         /\ member' = IF ok THEN [member EXCEPT ![ih[h].user] = "kicked"] ELSE member
    /\ UNCHANGED <<now, ticks, wvars, candidates, tasks, sp>>

\* reject: ban_chat_member(INVITE_CHAT_ID, candidate_user_id) bans or raises
RejectBan(h) ==
    /\ ih[h].pc = "k_ban"
    /\ \E ok \in BOOLEAN :
         /\ ih' = [ih EXCEPT ![h] = IF ok THEN [ih[h] EXCEPT !.pc = "k_update"]
                                    ELSE IdleHandler]
         /\ member' = IF ok THEN [member EXCEPT ![ih[h].user] = "kicked"] ELSE member
    /\ UNCHANGED <<now, ticks, wvars, candidates, tasks, sp>>

\* reject: update_candidate_status(status="kicked", reviewed_by, reviewed_at)
RejectUpdate(h) ==
    /\ ih[h].pc = "k_update"
    /\ candidates' = update_candidate_status(candidates, ih[h].user, "kicked",
                                             Moderator, ih[h].at, NULL)
    /\ ih' = [ih EXCEPT ![h] = IdleHandler]
    /\ UNCHANGED <<now, ticks, wvars, tasks, member, sp>>

\* wait: new_due = int(time.time()) + 36 * 60 * 60, read with no await since
\* the status check; postpone_candidate_review(candidate_user_id, ..., new_due)
WaitPostpone(h) ==
    /\ ih[h].pc = "w_postpone"
    /\ candidates' = postpone_candidate_review(candidates, ih[h].user,
                                               ih[h].at + WaitDelay)
    /\ ih' = [ih EXCEPT ![h].pc = "w_cancel", ![h].at = ih[h].at + WaitDelay]
    /\ UNCHANGED <<now, ticks, wvars, tasks, member, sp>>

WaitCancel(h) == CancelStep(h, "w_cancel", "w_sched")

WaitSchedule(h) == ScheduleStep(h, "w_sched")

\* on_candidate_join_main_chat: get_candidate_in_any_chat and the status check
MainStart(h) ==
    /\ ih[h].pc = "idle"
    /\ \E u \in CandUsers :
         /\ HasCandidate(candidates, u)
         /\ get_candidate(candidates, u).status \in {"candidate", "invited"}
         /\ ih' = [ih EXCEPT ![h] = [pc |-> "m_update", user |-> u, at |-> 0]]
    /\ UNCHANGED <<now, ticks, wvars, candidates, tasks, member, sp>>

\* update_candidate_status(user.id, candidate["reception_chat_id"], "accepted")
MainUpdate(h) ==
    /\ ih[h].pc = "m_update"
    /\ candidates' = update_candidate_status(candidates, ih[h].user, "accepted",
                                             NULL, NULL, NULL)
    /\ ih' = [ih EXCEPT ![h].pc = "m_cancel"]
    /\ UNCHANGED <<now, ticks, wvars, tasks, member, sp>>

MainCancel(h) == CancelStep(h, "m_cancel", "m_ban")

\* ban_chat_member(candidate["reception_chat_id"], user.id) bans or raises
MainBan(h) ==
    /\ ih[h].pc = "m_ban"
    /\ \E ok \in BOOLEAN :
         member' = IF ok THEN [member EXCEPT ![ih[h].user] = "kicked"] ELSE member
    /\ ih' = [ih EXCEPT ![h] = IdleHandler]
    /\ UNCHANGED <<now, ticks, wvars, candidates, tasks, sp>>

\* the platform: a member leaves the reception chat
Leave ==
    /\ \E u \in CandUsers :
         /\ member[u] = "member"
         /\ member' = [member EXCEPT ![u] = "left"]
    /\ UNCHANGED <<now, ticks, wvars, candidates, tasks, ih, sp>>

(* ---------------------------------------------------------------------- *)
(* services/db_scheduler.py                                                *)
(* ---------------------------------------------------------------------- *)
IdlePoller == [pc |-> "poll", batch |-> <<>>, cur |-> 0, locked |-> FALSE]

\* run_db_scheduler: tasks = await fetch_due_tasks(limit=30); an empty batch
\* leads to the sleep and the next poll
Fetch(s) ==
    /\ sp[s].pc = "poll"
    /\ LET batch == fetch_due_tasks(tasks, now, FetchLimit)
       IN  /\ batch # <<>>
           /\ sp' = [sp EXCEPT ![s] = [IdlePoller EXCEPT !.pc = "claim",
                                                         !.batch = batch]]
    /\ UNCHANGED <<now, ticks, wvars, candidates, tasks, member, ih>>

\* for task in tasks: locked = await mark_task_running(task_id)
Claim(s) ==
    /\ sp[s].pc = "claim"
    /\ LET task_id == Head(sp[s].batch)
           r == mark_task_running(tasks, task_id)
       IN  /\ tasks' = r[1]
           /\ sp' = [sp EXCEPT ![s] = [pc |-> "claimed", batch |-> Tail(sp[s].batch),
                                       cur |-> task_id, locked |-> r[2]]]
    /\ UNCHANGED <<now, ticks, wvars, candidates, member, ih>>

NextTaskAbort(r) == IdlePoller

\* the loop goes to its next task, or sleeps and polls again
NextTask(r) ==
    IF r.batch = <<>> THEN IdlePoller
    ELSE [r EXCEPT !.pc = "claim", !.cur = 0, !.locked = FALSE]

HandleReadIgnoresClaim(s) ==
    /\ sp[s].pc = "claimed"
    /\ sp' = [sp EXCEPT ![s] =
                 IF IsCandidate(candidates, tasks[sp[s].cur].user_id)
                 THEN [sp[s] EXCEPT !.pc = "h_member"]
                 ELSE [sp[s] EXCEPT !.pc = "mark_done"]]
    /\ UNCHANGED <<now, ticks, wvars, candidates, tasks, member, ih>>

HandleReadAnyStatus(s) ==
    /\ sp[s].pc = "claimed"
    /\ sp' = [sp EXCEPT ![s] =
                 IF ~sp[s].locked THEN NextTask(sp[s])
                 ELSE IF HasCandidate(candidates, tasks[sp[s].cur].user_id)
                      THEN [sp[s] EXCEPT !.pc = "h_member"]
                      ELSE [sp[s] EXCEPT !.pc = "mark_done"]]
    /\ UNCHANGED <<now, ticks, wvars, candidates, tasks, member, ih>>

\* if not locked: continue; else _handle_invite_review_due:
\* get_candidate and the status check
HandleRead(s) ==
    /\ sp[s].pc = "claimed"
    /\ sp' = [sp EXCEPT ![s] =
                 IF ~sp[s].locked THEN NextTask(sp[s])
                 ELSE IF IsCandidate(candidates, tasks[sp[s].cur].user_id)
                      THEN [sp[s] EXCEPT !.pc = "h_member"]
                      ELSE [sp[s] EXCEPT !.pc = "mark_done"]]
    /\ UNCHANGED <<now, ticks, wvars, candidates, tasks, member, ih>>

\* get_chat_member returns the member, raises TelegramBadRequest (member =
\* None) or raises another error; then bot.send_message of the departure
\* notice or of the decision prompt returns or raises
HandlePlatform(s) ==
    /\ sp[s].pc = "h_member"
    /\ \E outcome \in {"member", "bad_request", "error"}, sent \in BOOLEAN :
         LET present == outcome = "member"
                            /\ member[tasks[sp[s].cur].user_id] = "member"
         IN  sp' = [sp EXCEPT ![s].pc =
                       IF outcome = "error" \/ ~sent THEN "mark_failed"
                       ELSE IF present THEN "h_setmsg" ELSE "mark_done"]
    /\ UNCHANGED <<now, ticks, wvars, candidates, tasks, member, ih>>

\* set_candidate_buttons_message(user_id, chat_id, sent.message_id)
HandleSetMsg(s) ==
    /\ sp[s].pc = "h_setmsg"
    /\ candidates' = set_candidate_buttons_message(candidates,
                         tasks[sp[s].cur].user_id, PromptMsg)
    /\ sp' = [sp EXCEPT ![s].pc = "mark_done"]
    /\ UNCHANGED <<now, ticks, wvars, tasks, member, ih>>

MarkDoneSkipped(s) ==
    /\ sp[s].pc = "mark_done"
    /\ sp' = [sp EXCEPT ![s] = NextTask(sp[s])]
    /\ UNCHANGED <<now, ticks, wvars, candidates, tasks, member, ih>>

\* await mark_task_done(task_id)
MarkDone(s) ==
    /\ sp[s].pc = "mark_done"
    /\ tasks' = mark_task_done(tasks, sp[s].cur)
    /\ sp' = [sp EXCEPT ![s] = NextTask(sp[s])]
    /\ UNCHANGED <<now, ticks, wvars, candidates, member, ih>>

\* except Exception as exc: await mark_task_failed(task_id, str(exc))
MarkFailed(s) ==
    /\ sp[s].pc = "mark_failed"
    /\ tasks' = mark_task_failed(tasks, sp[s].cur, "error")
    /\ sp' = [sp EXCEPT ![s] = NextTask(sp[s])]
    /\ UNCHANGED <<now, ticks, wvars, candidates, member, ih>>

\* the clock of the admission workflow, read when the next pending task
\* becomes due
FutureDue ==
    {tasks[i].run_at : i \in {j \in DOMAIN tasks : /\ tasks[j].status = "pending"
                                                   /\ tasks[j].run_at > now}}

InviteTick ==
    /\ ticks < MaxTicks
    /\ FutureDue # {}
    /\ now' = CHOOSE t \in FutureDue : \A x \in FutureDue : t <= x
    /\ ticks' = ticks + 1
    /\ UNCHANGED <<wvars, ivars>>

HandlerStep(h) ==
    \/ JoinUpsert(h) \/ JoinCancel(h) \/ JoinSchedule(h)
    \/ ForceStart(h) \/ ForceSetMsg(h) \/ ForceCancel(h)
    \/ CallbackStart(h) \/ AcceptUpdate(h)
    \/ RejectBan(h) \/ RejectUpdate(h)
    \/ WaitPostpone(h) \/ WaitCancel(h) \/ WaitSchedule(h)
    \/ MainStart(h) \/ MainUpdate(h) \/ MainCancel(h) \/ MainBan(h)

PollerStep(s) ==
    \/ Fetch(s) \/ Claim(s) \/ HandleRead(s) \/ HandlePlatform(s)
    \/ HandleSetMsg(s)
    \/ MarkDone(s) \/ MarkFailed(s)

Init ==
    /\ now = 0
    /\ ticks = 0
    /\ warnings = InitialLedger
    /\ wlock = 0
    /\ wp = [p \in WProcs |-> IdleProc]
    /\ banned = {}
    /\ candidates = {}
    /\ tasks = <<>>
    /\ member = [u \in CandUsers |-> "none"]
    /\ ih = [h \in IProcs |-> IdleHandler]
    /\ sp = [s \in Pollers |-> IdlePoller]

NextWarn ==
    \/ Tick
    \/ \E p \in WProcs :
          \/ WarnStart(p)
          \/ WarnBegin(p)
          \/ WarnInsert(p)
          \/ WarnCount(p)
          \/ WarnCommit(p)
          \/ WarnEnforce(p)
          \/ WarnReturn(p)
          \/ UnwarnStart(p)
          \/ UnwarnBegin(p)
          \/ RevokeSelect(p)
          \/ RevokeUpdate(p)
          \/ RevokeCount(p)
          \/ RevokeCommit(p)
          \/ UnwarnReply(p)

SpecWarn == Init /\ [][NextWarn]_vars

\* the admission workflow: two concurrent handlers and the scheduler loop
NextInvite ==
    \/ InviteTick
    \/ \E h \in IProcs : HandlerStep(h)
    \/ PollerStep(1)

SpecInvite == Init /\ [][NextInvite]_vars

\* the task queue: one handler and two scheduler loops polling the same queue
NextQueue ==
    \/ InviteTick
    \/ Leave
    \/ HandlerStep(1)
    \/ \E s \in Pollers : PollerStep(s)

SpecQueue == Init /\ [][NextQueue]_vars

(* ---------------------------------------------------------------------- *)
(* cancel_pending_tasks called on any table, with any filters              *)
(* ---------------------------------------------------------------------- *)
OtherChat == 200
TaskTypes == {"invite_review_due", "other"}

\* rows the table scheduled_tasks can hold: tries is 0 until the claim
TaskRows ==
    {[id |-> 0, task_type |-> ty, run_at |-> 0, status |-> st, chat_id |-> c,
      user_id |-> u, tries |-> IF st = "pending" THEN 0 ELSE 1, last_error |-> ""] :
        ty \in TaskTypes, st \in {"pending", "running", "done"},
        c \in {ReceptionChat, OtherChat}, u \in {1, OtherUser}}

\* tables of 1 .. MaxTasks rows, ids in insertion order
TaskTables ==
    UNION {{[i \in 1 .. n |-> [f[i] EXCEPT !.id = i]] : f \in [1 .. n -> TaskRows]} :
              n \in 1 .. MaxTasks}

\* the scheduler loop either polls or is between the claim of a running task
\* and its mark_task_done / mark_task_failed
PollerStates(tsk) ==
    {IdlePoller} \cup
    {[pc |-> pc, batch |-> <<>>, cur |-> i, locked |-> TRUE] :
        pc \in {"mark_done", "mark_failed"},
        i \in {j \in DOMAIN tsk : tsk[j].status = "running"}}

InitCancel ==
    /\ now = 0
    /\ ticks = 0
    /\ warnings = InitialLedger
    /\ wlock = 0
    /\ wp = [p \in WProcs |-> IdleProc]
    /\ banned = {}
    /\ candidates = {}
    /\ tasks \in TaskTables
    /\ member = [u \in CandUsers |-> "none"]
    /\ ih = [h \in IProcs |-> IdleHandler]
    /\ \E ps \in PollerStates(tasks) : sp = [s \in Pollers |-> IF s = 1 THEN ps ELSE IdlePoller]

\* a caller invokes cancel_pending_tasks(task_type, chat_id=..., user_id=...)
CancelCall(h) ==
    /\ ih[h].pc = "idle"
    /\ \E ty \in TaskTypes, c \in {NULL, ReceptionChat, OtherChat},
          u \in {NULL, 1, OtherUser} :
         ih' = [ih EXCEPT ![h] = [pc |-> "c_update", user |-> u, at |-> 0,
                                  task_type |-> ty, chat_id |-> c, ret |-> NULL]]
    /\ UNCHANGED <<now, ticks, wvars, candidates, tasks, member, sp>>

\* cur = await db.execute(UPDATE ...); await db.commit(); return cur.rowcount
CancelUpdate(h) ==
    /\ ih[h].pc = "c_update"
    /\ tasks' = cancel_pending_tasks(tasks, ih[h].task_type, ih[h].chat_id, ih[h].user)
    /\ ih' = [ih EXCEPT ![h].pc = "c_done",
                        ![h].ret = cancel_pending_rowcount(tasks, ih[h].task_type,
                                                           ih[h].chat_id, ih[h].user)]
    /\ UNCHANGED <<now, ticks, wvars, candidates, member, sp>>

NextCancel ==
    \/ CancelCall(1)
    \/ CancelUpdate(1)
    \/ MarkDone(1)
    \/ MarkFailed(1)

SpecCancel == InitCancel /\ [][NextCancel]_vars

(* ---------------------------------------------------------------------- *)
(* fetch_due_tasks on tables with more due tasks than the limit             *)
(* ---------------------------------------------------------------------- *)
MaxDue == 3
FetchNow == 10
RunTimes == {0, 5, 20}
FetchLimits == 1 .. MaxDue - 1

\* rows of scheduled_tasks: pending rows due before FetchNow or after it,
\* and rows already done
FetchRows ==
    {[id |-> 0, task_type |-> "invite_review_due", run_at |-> t, status |-> st,
      chat_id |-> ReceptionChat, user_id |-> 1,
      tries |-> IF st = "pending" THEN 0 ELSE 1, last_error |-> ""] :
        t \in RunTimes, st \in {"pending", "done"}}

\* tables of 1 .. MaxDue rows, ids in insertion order
FetchTables ==
    UNION {{[i \in 1 .. n |-> [f[i] EXCEPT !.id = i]] : f \in [1 .. n -> FetchRows]} :
              n \in 1 .. MaxDue}

InitFetch ==
    /\ now = FetchNow
    /\ ticks = 0
    /\ warnings = InitialLedger
    /\ wlock = 0
    /\ wp = [p \in WProcs |-> IdleProc]
    /\ banned = {}
    /\ candidates = {}
    /\ tasks \in FetchTables
    /\ member = [u \in CandUsers |-> "none"]
    /\ ih = [h \in IProcs |-> IdleHandler]
    /\ sp = [s \in Pollers |-> IdlePoller]

\* tasks = await fetch_due_tasks(limit=...), the limit drawn by the caller
FetchCall(s) ==
    /\ sp[s].pc = "poll"
    /\ \E limit \in FetchLimits :
         LET batch == fetch_due_tasks(tasks, now, limit)
         IN  /\ batch # <<>>
             /\ sp' = [sp EXCEPT ![s] = [pc |-> "claim", batch |-> batch, cur |-> 0,
                                         locked |-> FALSE, limit |-> limit]]
    /\ UNCHANGED <<now, ticks, wvars, candidates, tasks, member, ih>>

NextFetch ==
    \/ FetchCall(1)
    \/ Claim(1)
    \/ HandleRead(1)
    \/ MarkDone(1)

SpecFetch == InitFetch /\ [][NextFetch]_vars

(* ---------------------------------------------------------------------- *)
(* The scheduler loop under fair scheduling                                 *)
(* ---------------------------------------------------------------------- *)
\* a candidate of the reception chat waits for review while the queue holds
\* the rows of FetchTables
InitLive ==
    /\ now = FetchNow
    /\ ticks = 0
    /\ warnings = InitialLedger
    /\ wlock = 0
    /\ wp = [p \in WProcs |-> IdleProc]
    /\ banned = {}
    /\ candidates = {NewCandidate(1, 0, 5)}
    /\ tasks \in FetchTables
    /\ member = [u \in CandUsers |-> "member"]
    /\ ih = [h \in IProcs |-> IdleHandler]
    /\ sp = [s \in Pollers |-> IdlePoller]

\* one iteration step of run_db_scheduler
LiveStep(s) ==
    \/ FetchCall(s) \/ Claim(s) \/ HandleRead(s) \/ HandlePlatform(s)
    \/ HandleSetMsg(s)
    \/ MarkDone(s) \/ MarkFailed(s)

\* the scheduler loop and a force-review command, which cancels pending
\* review-due tasks
NextLive ==
    \/ LiveStep(1)
    \/ ForceStart(1) \/ ForceSetMsg(1) \/ ForceCancel(1)

\* the loop is an asyncio task of its own: its next step is taken once its
\* await returns
FairLive == WF_vars(LiveStep(1))

SpecLive == InitLive /\ [][NextLive]_vars /\ FairLive

(* ---------------------------------------------------------------------- *)
(* The scheduler loop while the store raises                               *)
(* ---------------------------------------------------------------------- *)
\* fetch_due_tasks, mark_task_running (before the try) or mark_task_failed
\* (in the except clause) raises: the exception leaves the while loop and
\* run_db_scheduler ends
StoreRaisesOutsideTry(s) ==
    /\ sp[s].pc \in {"poll", "claim", "mark_failed"}
    /\ sp' = [sp EXCEPT ![s].pc = "stopped"]
    /\ UNCHANGED <<now, ticks, wvars, candidates, tasks, member, ih>>

\* get_candidate, set_candidate_buttons_message or mark_task_done raises
\* inside the try: except Exception leads to mark_task_failed
StoreRaisesInsideTry(s) ==
    /\ sp[s].pc \in {"claimed", "h_setmsg", "mark_done"}
    /\ sp[s].locked
    /\ sp' = [sp EXCEPT ![s].pc = "mark_failed"]
    /\ UNCHANGED <<now, ticks, wvars, candidates, tasks, member, ih>>

NextStore ==
    \/ InviteTick
    \/ Leave
    \/ JoinUpsert(1) \/ JoinCancel(1) \/ JoinSchedule(1)
    \/ PollerStep(1)
    \/ StoreRaisesOutsideTry(1)
    \/ StoreRaisesInsideTry(1)

SpecStore == Init /\ [][NextStore]_vars

(* ---------------------------------------------------------------------- *)
(* Properties of the warning ledger and the escalation                     *)
(* ---------------------------------------------------------------------- *)
\* the re-scan: the records of the user that are not revoked and not expired
Rescan(user_id, now_ts) ==
    Cardinality({i \in 1 .. Len(warnings) :
                    /\ warnings[i].user_id = user_id
                    /\ warnings[i].is_revoked = FALSE
                    /\ warnings[i].expires_at > now_ts})

\* C1: the active count a create_warning or revoke_latest_warning call is
\* about to return (computed, transaction not yet committed) equals the
\* number of the user's records that a re-scan at the call's own logical
\* time finds not revoked and not expired.
C1_CountEqualsRescan ==
    \A p \in WProcs :
        wp[p].pc \in {"w_commit", "r_commit"}
            => wp[p].cnt = Rescan(wp[p].target, wp[p].now_ts)

\* a call returns a count while a record of the user is revoked or expired
C1_Witness ==
    \E p \in WProcs :
        /\ wp[p].pc \in {"w_commit", "r_commit"}
        /\ wp[p].cnt >= 1
        /\ \E i \in 1 .. Len(warnings) :
              /\ warnings[i].user_id = wp[p].target
              /\ ~IsActive(warnings[i], wp[p].now_ts)

\* the two create_warning calls p and q have both committed, for the same
\* user, no record of the user was revoked while either was running, no
\* third call inserted between them, and no record of the user is active at
\* one call's time and expired at the other's
QuietPair(p, q) ==
    /\ wp[p].pc = "w_enforce" /\ wp[q].pc = "w_enforce"
    /\ wp[p].target = wp[q].target
    /\ wp[p].wid < wp[q].wid
    /\ ~wp[p].dist /\ ~wp[q].dist
    /\ \A i \in 1 .. Len(warnings) :
          warnings[i].user_id = wp[p].target =>
             /\ ~(wp[p].wid < i /\ i < wp[q].wid)
             /\ (warnings[i].expires_at > wp[p].now_ts)
                    = (warnings[i].expires_at > wp[q].now_ts)

\* the user's active records before the earlier of the two calls
ActiveBefore(p) ==
    Cardinality({i \in 1 .. (wp[p].wid - 1) :
                    /\ warnings[i].user_id = wp[p].target
                    /\ IsActive(warnings[i], wp[p].now_ts)})

\* C2: two concurrent create_warning calls for the same user serialize: with
\* k active warnings before and no expiry or revocation meanwhile they
\* return k+1 and k+2, never the same count, and both records are stored.
C2_ConcurrentWarnsSerialize ==
    \A p, q \in WProcs :
        QuietPair(p, q) =>
            /\ wp[p].cnt = ActiveBefore(p) + 1
            /\ wp[q].cnt = ActiveBefore(p) + 2
            /\ wp[q].wid <= Len(warnings)
            /\ warnings[wp[p].wid].user_id = wp[p].target
            /\ warnings[wp[q].wid].user_id = wp[q].target

\* two calls that overlapped have both committed, the user had a warning before
C2_Witness ==
    \E p, q \in WProcs :
        /\ QuietPair(p, q)
        /\ ActiveBefore(p) >= 1
        /\ wp[p].cnt # wp[q].cnt

\* C4 (amended): the escalation decision is exclude iff active_count >= 3:
\* the ban is attempted for every active_count >= 3 and for none below 3,
\* and enforce_warning_ban reports True only when active_count >= 3 and the
\* platform applied the ban.
C4_BanAttemptedIffThreshold ==
    \A p \in WProcs :
        wp[p].pc = "w_end" =>
            /\ wp[p].tried = (wp[p].cnt >= BanThreshold)
            /\ wp[p].trig => (wp[p].tried /\ wp[p].target \in banned)

C4_Witness ==
    \E p \in WProcs :
        wp[p].pc = "w_end" /\ wp[p].cnt >= BanThreshold /\ wp[p].trig

\* C4 as stated: enforce_warning_ban reports that the exclusion was applied
\* for every active_count >= 3 and for no count below 3.
C4_Original ==
    \A p \in WProcs :
        wp[p].pc = "w_end" => (wp[p].trig = (wp[p].cnt >= BanThreshold))

\* C5: an exclusion applied by escalation is never lifted automatically: no
\* step of a warn or unwarn command and no passing of time takes a user out
\* of the banned set.
C5_BanNeverLifted == [][banned \subseteq banned']_vars

\* a banned user whose latest warning was revoked, active count below 3
C5_Witness ==
    \E u \in banned :
        /\ Rescan(u, now) < BanThreshold
        /\ \E i \in 1 .. Len(warnings) :
              warnings[i].user_id = u /\ warnings[i].is_revoked

\* C6: revoke_latest_warning for a user with zero active records selects no
\* record, changes no warning record in any of its steps, and returns the
\* active count 0.
C6_RevokeWithoutActive ==
    [][\A p \in WProcs :
        /\ (/\ wp[p].pc = "r_select"
            /\ wp'[p].pc # "r_select"
            /\ Rescan(wp[p].target, wp[p].now_ts) = 0)
              => (wp'[p].wid = NULL /\ wp'[p].pc = "r_count" /\ warnings' = warnings)
        /\ (/\ wp[p].pc \in {"r_count", "r_commit"}
            /\ wp[p].wid = NULL
            /\ wp'[p].pc # wp[p].pc)
              => (/\ warnings' = warnings
                  /\ wp'[p].cnt = 0
                  /\ wp'[p].pc \in {"r_commit", "r_end"})]_vars

\* an unwarn found nothing to revoke although the user has records
C6_Witness ==
    \E p \in WProcs :
        /\ wp[p].pc = "r_end"
        /\ wp[p].wid = NULL
        /\ wp[p].cnt = 0
        /\ \E i \in 1 .. Len(warnings) : warnings[i].user_id = wp[p].target

(* ---------------------------------------------------------------------- *)
(* Properties of the task queue and the admission workflow                 *)
(* ---------------------------------------------------------------------- *)
\* the ids a poller still holds from its last fetch
BatchIds(s) == {sp[s].batch[k] : k \in DOMAIN sp[s].batch}

\* this step is upsert_candidate_on_join for the user
UpsertStep(u) ==
    \E h \in IProcs :
        ih[h].pc = "idle" /\ ih'[h].pc = "j_cancel" /\ ih'[h].user = u

\* C3: of two pollers that call mark_task_running on the same pending task,
\* exactly one gets true: a call returns true iff the task is pending when
\* its UPDATE runs, the winning call sets status running and adds exactly 1
\* to tries, no other poller holds a true claim of that task, and a losing
\* call changes nothing.
C3_ClaimIsExclusive ==
    [][\A s \in Pollers :
        (sp[s].pc = "claim" /\ sp'[s].pc = "claimed") =>
            LET id == Head(sp[s].batch)
            IN  /\ sp'[s].cur = id
                /\ sp'[s].locked = (tasks[id].status = "pending")
                /\ sp'[s].locked =>
                      /\ tasks' = [tasks EXCEPT ![id].status = "running",
                                                ![id].tries = tasks[id].tries + 1]
                      /\ \A t \in Pollers \ {s} :
                            ~(sp[t].locked /\ sp[t].cur = id)
                /\ ~sp'[s].locked => tasks' = tasks]_vars

\* both pollers fetched the same pending task and both have called
\* mark_task_running: one won, one lost
C3_Witness ==
    \E s, t \in Pollers :
        /\ sp[s].pc = "claimed" /\ sp[t].pc = "claimed"
        /\ sp[s].cur = sp[t].cur
        /\ sp[s].locked /\ ~sp[t].locked
        /\ tasks[sp[s].cur].status = "running"
        /\ tasks[sp[s].cur].tries = 1

\* C7: after upsert_candidate_on_join, whatever the row was before (absent,
\* candidate, invited, kicked, accepted), exactly one row exists for the
\* user, its status is candidate, its review_due_at is the due time this
\* call passed, and reviewed_by, reviewed_at, invite_link and
\* last_buttons_msg_id are NULL.
C7_UpsertResetsRow ==
    [][\A h \in IProcs :
        (ih[h].pc = "idle" /\ ih'[h].pc = "j_cancel") =>
            LET rows == {r \in candidates' : r.user_id = ih'[h].user}
            IN  /\ Cardinality(rows) = 1
                /\ \A r \in rows :
                      /\ r.status = "candidate"
                      /\ r.review_due_at = ih'[h].at
                      /\ r.reviewed_by = NULL
                      /\ r.reviewed_at = NULL
                      /\ r.invite_link = NULL
                      /\ r.last_buttons_msg_id = NULL]_vars

\* the user has joined again, later than the first time: the row created by
\* the first call carries the due time of the latest one
C7_Witness ==
    \E h \in IProcs :
        /\ ih[h].pc = "j_cancel"
        /\ HasCandidate(candidates, ih[h].user)
        /\ LET r == get_candidate(candidates, ih[h].user)
           IN  /\ r.created_at + ReviewDelay < r.review_due_at
               /\ r.review_due_at = ih[h].at

\* C8: every task a fetch_due_tasks call returns is, when the SELECT runs,
\* pending and due (run_at <= now).
C8_FetchOnlyDuePending ==
    [][\A s \in Pollers :
        (sp[s].pc = "poll" /\ sp'[s].pc = "claim") =>
            \A k \in DOMAIN sp'[s].batch :
                /\ sp'[s].batch[k] \in DOMAIN tasks
                /\ tasks[sp'[s].batch[k]].status = "pending"
                /\ tasks[sp'[s].batch[k]].run_at <= now]_vars

\* a fetch returned a task and left out a pending task that is not yet due
C8_Witness ==
    \E s \in Pollers :
        /\ sp[s].pc = "claim"
        /\ sp[s].batch # <<>>
        /\ \E i \in DOMAIN tasks :
              /\ i \notin BatchIds(s)
              /\ tasks[i].status = "pending"
              /\ tasks[i].run_at > now

\* C9: a row that is not in status candidate (kicked, and likewise invited
\* or accepted) gets status candidate only in an upsert_candidate_on_join
\* step, in every interleaving of decision callbacks, the scheduler and joins
\* of the main chat.
C9_CandidateOnlyByUpsert ==
    [][\A u \in CandUsers :
        (/\ HasCandidate(candidates, u)
         /\ get_candidate(candidates, u).status # "candidate"
         /\ get_candidate(candidates', u).status = "candidate")
            => UpsertStep(u)]_vars

\* the row is kicked and a wait callback that overlapped the reject has
\* postponed its review
C9_Witness ==
    \E h \in IProcs :
        /\ ih[h].pc = "w_cancel"
        /\ HasCandidate(candidates, ih[h].user)
        /\ get_candidate(candidates, ih[h].user).status = "kicked"
        /\ get_candidate(candidates, ih[h].user).review_due_at = ih[h].at

\* C10 as stated: once a row's status is kicked or accepted, only
\* upsert_candidate_on_join changes it.
C10_TerminalStatuses ==
    [][\A u \in CandUsers :
        (/\ HasCandidate(candidates, u)
         /\ get_candidate(candidates, u).status \in {"kicked", "accepted"})
            => \/ get_candidate(candidates', u).status
                      = get_candidate(candidates, u).status
               \/ UpsertStep(u)]_vars

\* a reject and an accept callback overlapped: the user is banned from the
\* reception chat, no handler is running, and the row reads invited
C10_Witness ==
    \E u \in CandUsers :
        /\ HasCandidate(candidates, u)
        /\ get_candidate(candidates, u).status = "invited"
        /\ member[u] = "kicked"
        /\ \A h \in IProcs : ih[h].pc = "idle"
        /\ \A i \in DOMAIN tasks : tasks[i].status = "pending"

\* C11 as stated: every change of a row's status is candidate to invited,
\* invited to accepted, candidate to kicked, or a reset to candidate by
\* upsert_candidate_on_join; accepted is entered only from invited.
C11_StateMachineEdges ==
    [][\A u \in CandUsers :
        (/\ HasCandidate(candidates, u)
         /\ get_candidate(candidates', u).status
                # get_candidate(candidates, u).status)
            => \/ UpsertStep(u)
               \/ <<get_candidate(candidates, u).status,
                    get_candidate(candidates', u).status>>
                      \in {<<"candidate", "invited">>, <<"invited", "accepted">>,
                           <<"candidate", "kicked">>}]_vars

\* the row is accepted and was never invited: no link was ever issued and no
\* moderator reviewed it
C11_Witness ==
    \E u \in CandUsers :
        /\ HasCandidate(candidates, u)
        /\ get_candidate(candidates, u).status = "accepted"
        /\ get_candidate(candidates, u).invite_link = NULL
        /\ get_candidate(candidates, u).reviewed_by = NULL
        /\ \A h \in IProcs : ih[h].pc = "idle"

\* the status changes of the task lifecycle
TaskEdges ==
    {<<"pending", "running">>, <<"running", "done">>, <<"running", "failed">>,
     <<"pending", "cancelled">>}

\* C12: every task status change is pending to running, running to done,
\* running to failed or pending to cancelled; a done, failed or cancelled
\* task never changes again (status and tries), tries changes only by the
\* +1 of the claim, and a new task starts pending with tries 0.
C12_TaskLifecycle ==
    [][/\ Len(tasks') >= Len(tasks)
       /\ \A i \in DOMAIN tasks :
            /\ tasks'[i].status # tasks[i].status
                  => <<tasks[i].status, tasks'[i].status>> \in TaskEdges
            /\ tasks[i].status \in {"done", "failed", "cancelled"}
                  => tasks'[i] = tasks[i]
            /\ tasks'[i].tries # tasks[i].tries
                  => /\ tasks[i].status = "pending" /\ tasks'[i].status = "running"
                     /\ tasks'[i].tries = tasks[i].tries + 1
       /\ \A i \in DOMAIN tasks' \ DOMAIN tasks :
            tasks'[i].status = "pending" /\ tasks'[i].tries = 0]_vars

\* a task has failed after one attempt, another was cancelled, and the
\* scheduler loops are polling again
C12_Witness ==
    /\ \E i, j \in DOMAIN tasks :
          /\ tasks[i].status = "failed" /\ tasks[i].tries = 1
          /\ tasks[i].last_error # ""
          /\ tasks[j].status = "cancelled" /\ tasks[j].tries = 0
    /\ \A s \in Pollers : sp[s].pc = "poll"

\* C13: a cancel_pending_tasks call sets to cancelled exactly the tasks that
\* are pending, of the given task type, and equal to every filter given
\* (chat_id, user_id), returns their number and changes nothing else in the
\* table; a running task is never cancelled, and mark_task_done /
\* mark_task_failed still end it as done or failed after the call.
C13_CancelOnlyPendingMatches ==
    [][/\ \A h \in IProcs :
            (ih[h].pc = "c_update" /\ ih'[h].pc = "c_done") =>
                LET hit == {i \in DOMAIN tasks :
                               /\ tasks[i].status = "pending"
                               /\ tasks[i].task_type = ih[h].task_type
                               /\ (ih[h].chat_id = NULL
                                      \/ tasks[i].chat_id = ih[h].chat_id)
                               /\ (ih[h].user = NULL \/ tasks[i].user_id = ih[h].user)}
                IN  /\ DOMAIN tasks' = DOMAIN tasks
                    /\ \A i \in hit : tasks'[i] = [tasks[i] EXCEPT !.status = "cancelled"]
                    /\ \A i \in DOMAIN tasks \ hit : tasks'[i] = tasks[i]
                    /\ ih'[h].ret = Cardinality(hit)
       /\ \A i \in DOMAIN tasks :
            tasks[i].status = "running" =>
                /\ tasks'[i].status \in {"running", "done", "failed"}
                /\ \A s \in Pollers :
                      (sp[s].cur = i /\ sp'[s].pc # sp[s].pc) =>
                          tasks'[i].status = (IF sp[s].pc = "mark_done" THEN "done"
                                              ELSE "failed")]_vars

\* a call cancelled a task and left alone a task of the same type, chat and
\* user that was running, which has since ended as done or failed
C13_Witness ==
    \E h \in IProcs :
        /\ ih[h].pc = "c_done"
        /\ ih[h].ret = 1
        /\ \E i, j \in DOMAIN tasks :
              /\ tasks[i].status = "cancelled"
              /\ tasks[j].status = "failed"
              /\ tasks[j].last_error # ""
              /\ CancelMatches([tasks[j] EXCEPT !.status = "pending"],
                               ih[h].task_type, ih[h].chat_id, ih[h].user)

\* C14 (amended): the scheduler loop is the sole writer of the claim: a task
\* leaves pending either to running, in a mark_task_running step of a
\* scheduler loop and in no handler step, or to cancelled, in a
\* cancel_pending_tasks step of a handler; a handler never moves a pending
\* task to running, done or failed.
C14_OnlySchedulerClaims ==
    [][\A i \in DOMAIN tasks :
        (tasks[i].status = "pending" /\ tasks'[i].status # "pending") =>
            \/ /\ tasks'[i].status = "running"
               /\ ih' = ih
               /\ \E s \in Pollers :
                     sp[s].pc = "claim" /\ sp'[s].pc = "claimed" /\ sp'[s].cur = i
            \/ /\ tasks'[i].status = "cancelled"
               /\ sp' = sp
               /\ \E h \in IProcs :
                     /\ ih[h].pc \in {"j_cancel", "f_cancel", "w_cancel", "m_cancel"}
                     /\ ih'[h].pc # ih[h].pc]_vars

\* a handler has cancelled a pending task and a scheduler loop has claimed
\* the task enqueued after it
C14_Witness ==
    \E i, j \in DOMAIN tasks, s \in Pollers :
        /\ tasks[i].status = "cancelled"
        /\ tasks[j].status = "running"
        /\ sp[s].pc = "claimed" /\ sp[s].locked /\ sp[s].cur = j

\* C14 as stated: no step of a command or event handler changes a task's
\* status from pending to another status.
C14_Original ==
    [][\A i \in DOMAIN tasks :
        (tasks[i].status = "pending" /\ tasks'[i].status # "pending") => ih' = ih]_vars

\* the task's notification has not been performed and the task was not
\* cancelled
Undelivered(i) == tasks[i].status \in {"pending", "running", "failed"}

\* the task can still be attempted: it is pending, or a scheduler loop holds
\* its claim and is handling it
Retriable(i) ==
    \/ tasks[i].status = "pending"
    \/ \E s \in Pollers :
          /\ sp[s].cur = i /\ sp[s].locked
          /\ sp[s].pc \in {"claimed", "h_member", "h_setmsg", "mark_done", "mark_failed"}

\* C15 as stated: delivery is at-least-once, so a task that was enqueued,
\* never cancelled and whose notification has not yet succeeded, also after
\* an attempt that raised, stays open to a further attempt.
C15_AtLeastOnce == \A i \in DOMAIN tasks : Undelivered(i) => Retriable(i)

\* the only attempt of a due task raised: the task is failed, the candidate
\* is still waiting in the reception chat, and the scheduler loops poll on
\* without ever fetching the task again
C15_Witness ==
    \E i \in DOMAIN tasks :
        /\ tasks[i].status = "failed" /\ tasks[i].tries = 1
        /\ tasks[i].run_at <= now
        /\ IsCandidate(candidates, tasks[i].user_id)
        /\ get_candidate(candidates, tasks[i].user_id).last_buttons_msg_id = NULL
        /\ member[tasks[i].user_id] = "member"
        /\ \A s \in Pollers : sp[s].pc = "poll"
        /\ fetch_due_tasks(tasks, now, FetchLimit) = <<>>

\* C16: when the handler of a claimed task raises, the scheduler loop marks
\* that task failed with the error text recorded and goes on: to the claim
\* of the next task of the same fetched batch while one is left, and to the
\* next poll otherwise; the loop never stops on a task's failure.
C16_FailureDoesNotStopLoop ==
    [][\A s \in Pollers :
        /\ (sp[s].pc = "h_member" /\ sp'[s].pc # "h_member")
              => sp'[s].pc \in {"h_setmsg", "mark_done", "mark_failed"}
        /\ (sp[s].pc = "mark_failed" /\ sp'[s] # sp[s]) =>
              /\ tasks' = [tasks EXCEPT ![sp[s].cur].status = "failed",
                                        ![sp[s].cur].last_error = "error"]
              /\ IF sp[s].batch # <<>>
                 THEN /\ sp'[s].pc = "claim"
                      /\ sp'[s].batch = sp[s].batch
                      /\ \A k \in DOMAIN sp[s].batch : sp[s].batch[k] # sp[s].cur
                 ELSE sp'[s].pc = "poll"]_vars

\* the handler of the first task of a fetched batch of two has raised while
\* the second task of the batch is still waiting for its claim
C16_Witness ==
    \E s \in Pollers :
        /\ sp[s].pc = "mark_failed"
        /\ sp[s].locked
        /\ tasks[sp[s].cur].status = "running"
        /\ sp[s].batch # <<>>
        /\ tasks[Head(sp[s].batch)].status = "pending"

\* C17 as stated: when fetch_due_tasks, mark_task_running, mark_task_done or
\* mark_task_failed raises because the store is unavailable, the scheduler
\* loop is not stopped and polls again on the next cycle.
C17_LoopSurvivesStoreFailure == \A s \in Pollers : sp[s].pc # "stopped"

\* the store raised once, the loop has ended, and a due pending task is left
\* that no poll will ever fetch
C17_Witness ==
    /\ sp[1].pc = "stopped"
    /\ fetch_due_tasks(tasks, now, FetchLimit) # <<>>

\* the pending review-due tasks of the user in the reception chat
PendingReviews(tsk, u) ==
    {i \in DOMAIN tsk : /\ tsk[i].task_type = "invite_review_due"
                        /\ tsk[i].status = "pending"
                        /\ tsk[i].chat_id = ReceptionChat
                        /\ tsk[i].user_id = u}

\* C18: a join at t0 is handled with review_due_at = t0 + 3h; when its
\* handler ends, no other handler of handlers/invite.py having run meanwhile
\* (the scheduler loops may), the row is candidate with that due time and exactly one
\* pending review-due task of the user exists, run_at = review_due_at.  The
\* scheduler claims a task only when it is due; when it finds the row
\* candidate and the user present and has sent the prompt, it stores the
\* message id in last_buttons_msg_id, leaves the status candidate, and the
\* task ends done after its single attempt.
C18_JoinThenPrompt ==
    [][/\ \A h \in IProcs :
            /\ (ih[h].pc = "idle" /\ ih'[h].pc = "j_cancel")
                  => ih'[h].at = now + 3 * 60 * 60
            /\ (ih[h].pc = "j_sched" /\ ih'[h].pc = "idle") =>
                  LET r == get_candidate(candidates', ih[h].user)
                      pend == PendingReviews(tasks', ih[h].user)
                  IN  /\ r.status = "candidate"
                      /\ r.review_due_at = ih[h].at
                      /\ Cardinality(pend) = 1
                      /\ \A i \in pend : tasks'[i].run_at = r.review_due_at
       /\ \A s \in Pollers :
            /\ (sp[s].pc = "claim" /\ sp'[s].pc = "claimed" /\ sp'[s].locked)
                  => tasks[sp'[s].cur].run_at <= now
            /\ (sp[s].pc = "h_member" /\ sp'[s].pc = "h_setmsg")
                  => member[tasks[sp[s].cur].user_id] = "member"
            /\ (sp[s].pc = "h_setmsg" /\ sp'[s].pc = "mark_done") =>
                  LET u == tasks[sp[s].cur].user_id
                  IN  /\ get_candidate(candidates', u).last_buttons_msg_id = PromptMsg
                      /\ get_candidate(candidates', u).status
                             = get_candidate(candidates, u).status
                      /\ candidates' = {IF r.user_id = u
                                        THEN [r EXCEPT !.last_buttons_msg_id = PromptMsg]
                                        ELSE r : r \in candidates}
            /\ (sp[s].pc = "mark_done" /\ sp'[s].pc # "mark_done")
                  => /\ tasks'[sp[s].cur].status = "done"
                     /\ tasks'[sp[s].cur].tries = 1]_vars

\* the task of a second join was processed when due: the earlier task is
\* cancelled, the prompt's message id is stored, the row is still candidate
\* and the task is done
C18_Witness ==
    \E i, j \in DOMAIN tasks :
        /\ tasks[j].status = "cancelled"
        /\ tasks[i].status = "done" /\ tasks[i].tries = 1
        /\ tasks[i].run_at <= now
        /\ IsCandidate(candidates, tasks[i].user_id)
        /\ LET r == get_candidate(candidates, tasks[i].user_id)
           IN  /\ r.last_buttons_msg_id = PromptMsg
               /\ r.review_due_at = tasks[i].run_at
               /\ r.wait_count = 0
        /\ member[tasks[i].user_id] = "member"
        /\ \A h \in IProcs : ih[h].pc = "idle"
        /\ \A s \in Pollers : sp[s].pc = "poll"

\* C19: a wait click handled at time t on a row in status candidate, no other
\* handler of handlers/invite.py running meanwhile: postpone_candidate_review
\* sets review_due_at = t + 36h, adds exactly 1 to wait_count and changes
\* nothing else, the status stays candidate; cancel_pending_tasks cancels
\* every pending review-due task of the candidate; when the handler ends
\* exactly one pending review-due task of the candidate exists, with
\* run_at = t + 36h.
C19_WaitPostpones ==
    [][\A h \in IProcs :
        /\ (ih[h].pc = "idle" /\ ih'[h].pc = "w_postpone") => ih'[h].at = now
        /\ (ih[h].pc = "w_postpone" /\ ih'[h].pc = "w_cancel") =>
              LET old == get_candidate(candidates, ih[h].user)
              IN  /\ old.status = "candidate"
                  /\ candidates' = (candidates \ {old}) \cup
                        {[old EXCEPT !.review_due_at = ih[h].at + 36 * 60 * 60,
                                     !.wait_count = old.wait_count + 1]}
                  /\ ih'[h].at = ih[h].at + 36 * 60 * 60
        /\ (ih[h].pc = "w_cancel" /\ ih'[h].pc = "w_sched") =>
              /\ \A i \in PendingReviews(tasks, ih[h].user) :
                    tasks'[i].status = "cancelled"
              /\ PendingReviews(tasks', ih[h].user) = {}
        /\ (ih[h].pc = "w_sched" /\ ih'[h].pc = "idle") =>
              LET r == get_candidate(candidates', ih[h].user)
                  pend == PendingReviews(tasks', ih[h].user)
              IN  /\ r.status = "candidate"
                  /\ r.review_due_at = ih[h].at
                  /\ Cardinality(pend) = 1
                  /\ \A i \in pend : tasks'[i].run_at = ih[h].at]_vars

\* the first wait click on a candidate has been handled: the reminder
\* enqueued by the join is cancelled, one pending reminder is left, due 36h
\* after the click
C19_Witness ==
    \E u \in CandUsers, i, j \in DOMAIN tasks :
        /\ IsCandidate(candidates, u)
        /\ get_candidate(candidates, u).wait_count = 1
        /\ get_candidate(candidates, u).review_due_at = now + WaitDelay
        /\ tasks[i].status = "cancelled" /\ tasks[i].user_id = u
        /\ PendingReviews(tasks, u) = {j}
        /\ tasks[j].run_at = now + WaitDelay
        /\ \A h \in IProcs : ih[h].pc = "idle"

\* the ids of the user's warning records
TargetIds(tbl, u) == {i \in 1 .. Len(tbl) : tbl[i].user_id = u}

\* the records ids of the user are all active at now_ts: none revoked, all
\* within the validity window
AllActive(tbl, ids, now_ts) == \A i \in ids : IsActive(tbl[i], now_ts)

\* the user's records were issued one after the other
Successive(tbl, u) ==
    \A i, j \in TargetIds(tbl, u) : i < j => tbl[i].issued_at <= tbl[j].issued_at

\* C20: starting from a user with no warnings, successive warn commands
\* within the validity window and with no revocation return the active
\* counts 1, 2, 3 (the k-th returns k), and the ban is attempted on the third
\* and on neither of the first two; an unwarn that follows selects the latest
\* record, revokes it and returns the count of the others (2 after three
\* warnings); no step of the unwarn decides or lifts an exclusion.
C20_ThreeWarnsThenUnwarn ==
    [][\A p \in WProcs :
        LET u == wp'[p].target
            mine == {i \in TargetIds(warnings', u) : i <= wp'[p].wid}
        IN  /\ (/\ wp'[p].pc \in {"w_enforce", "w_end"}
                /\ AllActive(warnings', mine, wp'[p].now_ts))
                  => /\ wp'[p].cnt = Cardinality(mine)
                     /\ wp'[p].pc = "w_end" => (wp'[p].tried = (wp'[p].cnt >= 3))
            /\ (/\ wp[p].pc = "r_select" /\ wp'[p].pc # "r_select"
                /\ TargetIds(warnings, u) # {}
                /\ AllActive(warnings, TargetIds(warnings, u), wp[p].now_ts)
                /\ Successive(warnings, u))
                  => /\ wp'[p].pc = "r_update"
                     /\ \A i \in TargetIds(warnings, u) : i <= wp'[p].wid
            /\ (/\ wp[p].pc = "r_count" /\ wp'[p].pc = "r_commit"
                /\ wp[p].wid # NULL
                /\ AllActive(warnings, TargetIds(warnings, u) \ {wp[p].wid},
                             wp[p].now_ts))
                  => /\ warnings[wp[p].wid].is_revoked
                     /\ wp'[p].cnt = Cardinality(TargetIds(warnings, u)) - 1
            /\ (/\ wp'[p] # wp[p]
                /\ wp[p].pc \in {"r_begin", "r_select", "r_update", "r_count",
                                 "r_commit", "r_end"})
                  => (banned' = banned /\ ~wp'[p].tried /\ ~wp'[p].trig)]_vars

\* three warnings were issued to the user, the third led to the ban, and an
\* unwarn has revoked the third and returned 2: the user is still banned
C20_Witness ==
    \E p \in WProcs :
        LET u == wp[p].target
            ids == TargetIds(warnings, u)
        IN  /\ wp[p].pc = "r_end"
            /\ Cardinality(ids) = 3
            /\ wp[p].wid \in ids /\ \A i \in ids : i <= wp[p].wid
            /\ warnings[wp[p].wid].is_revoked
            /\ AllActive(warnings, ids \ {wp[p].wid}, wp[p].now_ts)
            /\ wp[p].cnt = 2
            /\ u \in banned
            /\ \A q \in WProcs \ {p} : wp[q].pc = "idle"

(* ---------------------------------------------------------------------- *)
(* The ledger as an audit trail                                            *)
(* ---------------------------------------------------------------------- *)
\* the fields of a warning record that no statement of services/warnings.py
\* updates
CreationFields(w) ==
    <<w.id, w.user_id, w.issued_at, w.expires_at, w.issued_by, w.issued_by_level>>

\* ids grow with the insertion order, and the revocation fields are set
\* exactly on the revoked records
LedgerShape(tbl) ==
    /\ \A i, j \in 1 .. Len(tbl) : i < j => tbl[i].id < tbl[j].id
    /\ \A i \in 1 .. Len(tbl) :
          /\ tbl[i].is_revoked = (tbl[i].revoked_at # NULL)
          /\ tbl[i].is_revoked = (tbl[i].revoked_by # NULL)

\* C21: the warning ledger is an append-only audit trail: no step deletes a
\* record, ids are strictly increasing in creation order, every field other
\* than the revocation fields keeps its creation value, is_revoked only goes
\* from false to true, and revoked_at / revoked_by are set exactly when
\* is_revoked is true and are not overwritten afterwards.
C21_AppendOnlyLedger ==
    [][/\ LedgerShape(warnings) /\ LedgerShape(warnings')
       /\ Len(warnings') >= Len(warnings)
       /\ \A i \in 1 .. Len(warnings) :
             /\ CreationFields(warnings'[i]) = CreationFields(warnings[i])
             /\ warnings[i].is_revoked =>
                   /\ warnings'[i].is_revoked
                   /\ warnings'[i].revoked_at = warnings[i].revoked_at
                   /\ warnings'[i].revoked_by = warnings[i].revoked_by]_vars

\* a record of the user was revoked at an earlier time than now, another
\* record was created after it, and an unwarn is about to select again
C21_Witness ==
    \E i, j \in 1 .. Len(warnings), p \in WProcs :
        /\ i < j
        /\ warnings[i].user_id = warnings[j].user_id
        /\ warnings[i].is_revoked
        /\ warnings[i].revoked_at < now
        /\ wp[p].pc = "r_select"
        /\ wp[p].target = warnings[i].user_id
        /\ wp[p].now_ts = now

(* ---------------------------------------------------------------------- *)
(* handlers/warnings.py: the commands with any actor level, target and     *)
(* arguments                                                               *)
(* ---------------------------------------------------------------------- *)
\* message.bot.id, and another bot of the chat
BotUser == 99
OtherBot == 98

\* get_admin_level: the level stored for the actor, 0 without a row
Levels == 0 .. 4

\* the user a command replies to (user_id NULL: the command is no reply)
NoUser == [user_id |-> NULL, is_bot |-> FALSE]

Replies ==
    {NoUser,
     [user_id |-> 1, is_bot |-> FALSE],
     [user_id |-> Moderator, is_bot |-> FALSE],
     [user_id |-> BotUser, is_bot |-> TRUE],
     [user_id |-> OtherBot, is_bot |-> TRUE]}

\* _parse_command_args: the tokens after the command
Mentions == {"@user", "@mod", "@bot", "@ghost"}

ArgLists ==
    {<<>>, <<"flood">>} \cup {<<m>> : m \in Mentions}
                        \cup {<<m, "flood">> : m \in Mentions}

\* token.startswith("@")
IsMention(token) == token \in Mentions

\* bot.get_chat(username): the id of the private chat, NULL when the call
\* raises or the chat is not private
get_chat(token) ==
    CASE token = "@user" -> 1
      [] token = "@mod" -> Moderator
      [] token = "@bot" -> BotUser
      [] OTHER -> NULL

\* _resolve_target_user: <<target, error code, the arguments left>>; the reply
\* has priority, a chat found by username carries no is_bot attribute
_resolve_target_user(reply, args) ==
    IF reply.user_id # NULL
    THEN <<reply, "", IF args # <<>> /\ IsMention(Head(args)) THEN Tail(args) ELSE args>>
    ELSE IF args = <<>> \/ ~IsMention(Head(args))
    THEN <<NoUser, "no_target", args>>
    ELSE IF get_chat(Head(args)) = NULL
    THEN <<NoUser, "username_not_found", Tail(args)>>
    ELSE <<[user_id |-> get_chat(Head(args)), is_bot |-> FALSE], "", Tail(args)>>

warn_checks_without_reason(actor, level, target, error_code, reason) ==
    IF level < WarnMinLevel THEN "level"
    ELSE IF error_code # "" THEN error_code
    ELSE IF target.user_id = NULL THEN "no_target"
    ELSE IF target.user_id = actor THEN "self"
    ELSE IF target.is_bot \/ target.user_id = BotUser THEN "bot"
    ELSE "ok"

\* warn_handler before create_warning: the first check that fails, or "ok"
warn_handler_checks(actor, level, target, error_code, reason) ==
    IF level < WarnMinLevel THEN "level"
    ELSE IF error_code # "" THEN error_code
    ELSE IF target.user_id = NULL THEN "no_target"
    ELSE IF target.user_id = actor THEN "self"
    ELSE IF target.is_bot \/ target.user_id = BotUser THEN "bot"
    ELSE IF reason = <<>> THEN "no_reason"
    ELSE "ok"

\* unwarn_handler before revoke_latest_warning
unwarn_handler_checks(actor, level, target, error_code) ==
    IF level < WarnMinLevel THEN "level"
    ELSE IF error_code # "" THEN error_code
    ELSE IF target.user_id = NULL THEN "no_target"
    ELSE IF target.user_id = actor THEN "self"
    ELSE IF target.is_bot \/ target.user_id = BotUser THEN "bot"
    ELSE "ok"

\* the handler's record of the command it serves
CommandProc(cmd, pc, level, r) ==
    [IdleProc EXCEPT !.pc = pc, !.cmd = cmd, !.actor = Moderator, !.level = level,
                     !.target = r[1].user_id, !.is_bot = r[1].is_bot,
                     !.reason = r[3],
                     !.now_ts = IF pc = "v_reply" THEN 0 ELSE now]

\* warn_handler: a /warn of the moderator, whose level is read from the
\* admins table; after the checks create_warning reads issued_at = _now_ts()
WarnCommand(p) ==
    /\ wp[p].pc = "idle"
    /\ Len(warnings) < Len(InitialLedger) + MaxWarnings
    /\ \E level \in Levels, reply \in Replies, args \in ArgLists :
         LET r == _resolve_target_user(reply, args)
             verdict == warn_handler_checks(Moderator, level, r[1], r[2], r[3])
         IN  wp' = [wp EXCEPT ![p] =
                       CommandProc("warn", IF verdict = "ok" THEN "w_begin"
                                           ELSE "v_reply", level, r)]
    /\ UNCHANGED <<now, ticks, warnings, wlock, banned, ivars>>

\* unwarn_handler: a /unwarn of the moderator
UnwarnCommand(p) ==
    /\ wp[p].pc = "idle"
    /\ \E level \in Levels, reply \in Replies, args \in ArgLists :
         LET r == _resolve_target_user(reply, args)
             verdict == unwarn_handler_checks(Moderator, level, r[1], r[2])
         IN  wp' = [wp EXCEPT ![p] =
                       CommandProc("unwarn", IF verdict = "ok" THEN "r_begin"
                                             ELSE "v_reply", level, r)]
    /\ UNCHANGED <<now, ticks, warnings, wlock, banned, ivars>>

\* a check failed: _answer_with_optional_ttl(message, ...) and return
ValidationReply(p) ==
    /\ wp[p].pc = "v_reply"
    /\ wp' = [wp EXCEPT ![p] = IdleProc]
    /\ UNCHANGED <<now, ticks, warnings, wlock, banned, ivars>>

NextCommand ==
    \/ Tick
    \/ WarnCommand(1) \/ UnwarnCommand(1) \/ ValidationReply(1)
    \/ WarnBegin(1) \/ WarnInsert(1) \/ WarnCount(1) \/ WarnCommit(1)
    \/ WarnEnforce(1) \/ WarnReturn(1)
    \/ UnwarnBegin(1) \/ RevokeSelect(1) \/ RevokeUpdate(1) \/ RevokeCount(1)
    \/ RevokeCommit(1) \/ UnwarnReply(1)

SpecCommand == Init /\ [][NextCommand]_vars

\* the command fails one of the validations of a warn: actor below level 3,
\* target missing, target the actor, target a bot, reason empty
InvalidWarn(r) ==
    \/ r.level < 3
    \/ r.target = NULL
    \/ r.target = r.actor
    \/ r.is_bot \/ r.target = BotUser
    \/ r.reason = <<>>

\* the same for an unwarn, which takes no reason
InvalidUnwarn(r) ==
    \/ r.level < 3
    \/ r.target = NULL
    \/ r.target = r.actor
    \/ r.is_bot \/ r.target = BotUser

C23_DecisionLeavesNoPending ==
    \A u \in CandUsers :
        (/\ HasCandidate(candidates, u)
         /\ get_candidate(candidates, u).status \in {"invited", "kicked"}
         /\ \A h \in IProcs : ih[h].pc = "idle")
            => PendingReviews(tasks, u) = {}

\* a prompt was rendered, a wait decision enqueued the next reminder, then an
\* accept decision was applied: the candidate is invited and the reminder of
\* the wait is still pending
C23_Witness ==
    \E u \in CandUsers, i \in DOMAIN tasks :
        LET c == get_candidate(candidates, u)
        IN  /\ HasCandidate(candidates, u)
            /\ c.status = "invited" /\ c.reviewed_by = Moderator
            /\ c.last_buttons_msg_id = PromptMsg
            /\ c.wait_count = 1
            /\ PendingReviews(tasks, u) = {i}
            /\ tasks[i].run_at = c.review_due_at
            /\ \A h \in IProcs : ih[h].pc = "idle"

\* C24: the review-due handler renders a decision prompt only if, when it
\* runs, the candidate row exists with status candidate and the subject is
\* present in the reception chat.  If the row is missing or not candidate it
\* sends nothing and goes straight to mark_task_done; if the subject is absent
\* it sends the departure notice and no prompt; in both cases no step of the
\* handler changes a candidate row, and the task whose handler returned is
\* marked done.  (A send that raises leads to mark_task_failed, the row
\* unchanged as well.)
C24_PromptOnlyForPresentCandidate ==
    [][\A s \in Pollers :
        (sp'[s] # sp[s] /\ sp[s].pc \in {"claimed", "h_member", "mark_done"}
            /\ sp[s].locked) =>
          LET u == tasks[sp[s].cur].user_id
          IN  /\ (sp[s].pc = "claimed" /\ ~IsCandidate(candidates, u))
                    => (sp'[s].pc = "mark_done" /\ candidates' = candidates)
              /\ (sp[s].pc = "claimed" /\ sp'[s].pc = "h_member")
                    => IsCandidate(candidates, u)
              /\ (sp[s].pc = "h_member" /\ sp'[s].pc = "h_setmsg")
                    => member[u] = "member"
              /\ (sp[s].pc = "h_member" /\ member[u] # "member")
                    => (/\ sp'[s].pc \in {"mark_done", "mark_failed"}
                        /\ candidates' = candidates)
              /\ sp[s].pc = "mark_done"
                    => (/\ tasks'[sp[s].cur].status = "done"
                        /\ candidates' = candidates)]_vars

\* the candidate joined once and left the reception chat before the reminder
\* was due: the handler has sent the departure notice and is about to mark the task done;
\* the row is still candidate, no prompt is recorded in it
C24_Witness ==
    \E s \in Pollers :
        /\ sp[s].pc = "mark_done" /\ sp[s].locked
        /\ Len(tasks) = 1
        /\ tasks[sp[s].cur].status = "running"
        /\ LET u == tasks[sp[s].cur].user_id
           IN  /\ IsCandidate(candidates, u)
               /\ member[u] = "left"
               /\ get_candidate(candidates, u).last_buttons_msg_id = NULL
               /\ get_candidate(candidates, u).wait_count = 0

(* ---------------------------------------------------------------------- *)
(* Platform failures, not-found conditions and authorization               *)
(* ---------------------------------------------------------------------- *)
\* C25: a failure of the platform's ban call during a warn command does not
\* undo or abort the warning: when active_count >= 3 and ban_chat_member
\* raises, enforce_warning_ban returns False, the new record stays stored as
\* it was, the active count the handler holds is unchanged, and the handler
\* goes on to its end and returns.
C25_BanFailureKeepsWarning ==
    [][\A p \in WProcs :
        /\ (/\ wp[p].pc = "w_enforce" /\ wp'[p].pc # "w_enforce"
            /\ wp[p].cnt >= 3
            /\ ~wp'[p].trig) =>
              /\ wp'[p].tried
              /\ wp'[p].pc = "w_end"
              /\ warnings' = warnings
              /\ wp[p].wid \in 1 .. Len(warnings')
              /\ warnings'[wp[p].wid].user_id = wp[p].target
              /\ wp'[p].cnt = wp[p].cnt /\ wp'[p].wid = wp[p].wid
              /\ banned' = banned
        /\ (/\ wp[p].pc = "w_end" /\ wp'[p] # wp[p]) =>
              /\ wp'[p].pc = "idle"
              /\ warnings' = warnings /\ banned' = banned]_vars

\* the third active warning was stored, the ban call failed: the handler is at
\* its end, the user is not banned and the record is active
C25_Witness ==
    \E p \in WProcs :
        /\ wp[p].pc = "w_end"
        /\ wp[p].cnt >= 3 /\ wp[p].tried /\ ~wp[p].trig
        /\ wp[p].target \notin banned
        /\ IsActive(warnings[wp[p].wid], wp[p].now_ts)
        /\ Rescan(wp[p].target, wp[p].now_ts) = 3

(* ---------------------------------------------------------------------- *)
(* handlers/invite.py: the commands with any actor level and any target    *)
(* ---------------------------------------------------------------------- *)
\* the users a /candidate or a callback can aim at: the candidate and a user
\* who never joined the reception chat
GateUsers == CandUsers \cup {OtherUser}

force_review_checks_any_status(level, tbl, user_id) ==
    IF level < InviteMinLevel THEN "level"
    ELSE IF ~HasCandidate(tbl, user_id) THEN "no_candidate"
    ELSE "ok"

\* force_candidate_review before show_candidate_buttons: the first check that
\* fails, or "ok"
force_candidate_review_checks(level, tbl, user_id) ==
    IF level < InviteMinLevel THEN "level"
    ELSE IF ~HasCandidate(tbl, user_id) THEN "no_candidate"
    ELSE IF get_candidate(tbl, user_id).status # "candidate" THEN "not_candidate"
    ELSE "ok"

callback_checks_without_level(level, tbl, user_id) ==
    IF ~HasCandidate(tbl, user_id) THEN "not_candidate"
    ELSE IF get_candidate(tbl, user_id).status # "candidate" THEN "not_candidate"
    ELSE "ok"

\* on_invite_callback before the action is applied
on_invite_callback_checks(level, tbl, user_id) ==
    IF level < InviteMinLevel THEN "level"
    ELSE IF ~HasCandidate(tbl, user_id) THEN "not_candidate"
    ELSE IF get_candidate(tbl, user_id).status # "candidate" THEN "not_candidate"
    ELSE "ok"

\* the handler's record of the command it serves
GateProc(pc, user_id, at, level, cmd) ==
    [pc |-> pc, user |-> user_id, at |-> at, level |-> level, cmd |-> cmd]

\* force_candidate_review: /candidate by the moderator in reply to a user; a
\* failed check is answered and the handler returns; otherwise
\* show_candidate_buttons' message.answer returns the prompt or raises
ForceCommand(h) ==
    /\ ih[h].pc = "idle"
    /\ \E level \in Levels, u \in GateUsers, sent \in BOOLEAN :
         LET verdict == force_candidate_review_checks(level, candidates, u)
         IN  ih' = [ih EXCEPT ![h] =
                       IF verdict # "ok" THEN GateProc("i_reply", u, 0, level, "force")
                       ELSE IF sent THEN GateProc("f_setmsg", u, 0, level, "force")
                       ELSE IdleHandler]
    /\ UNCHANGED <<now, ticks, wvars, candidates, tasks, member, sp>>

\* on_invite_callback: a click of the moderator on inv:<action>:<user>; a
\* failed check is answered with an alert and the handler returns; for accept
\* create_chat_invite_link returns a link or raises
CallbackCommand(h) ==
    /\ ih[h].pc = "idle"
    /\ \E level \in Levels, u \in GateUsers,
          action \in {"accept", "reject", "wait"}, linked \in BOOLEAN :
         LET verdict == on_invite_callback_checks(level, candidates, u)
         IN  /\ (verdict = "ok" /\ action = "wait") => TasksRoom
             /\ ih' = [ih EXCEPT ![h] =
                          IF verdict # "ok"
                          THEN GateProc("i_reply", u, 0, level, action)
                          ELSE IF action = "accept" /\ ~linked THEN IdleHandler
                          ELSE GateProc(CASE action = "accept" -> "a_update"
                                          [] action = "reject" -> "k_ban"
                                          [] OTHER -> "w_postpone",
                                        u, now, level, action)]
    /\ UNCHANGED <<now, ticks, wvars, candidates, tasks, member, sp>>

\* message.answer(...) / query.answer(..., show_alert=True) and return
GateReply(h) ==
    /\ ih[h].pc = "i_reply"
    /\ ih' = [ih EXCEPT ![h] = IdleHandler]
    /\ UNCHANGED <<now, ticks, wvars, candidates, tasks, member, sp>>

\* the commands of both routers with any actor level; the two routers share
\* no table, and a behaviour runs the commands of one of them
NextAuth ==
    \/ /\ ih[1].pc = "idle" /\ candidates = {}
       /\ (WarnCommand(1) \/ UnwarnCommand(1))
    \/ ValidationReply(1)
    \/ WarnBegin(1) \/ WarnInsert(1) \/ WarnCount(1) \/ WarnCommit(1)
    \/ WarnEnforce(1) \/ WarnReturn(1)
    \/ UnwarnBegin(1) \/ RevokeSelect(1) \/ RevokeUpdate(1) \/ RevokeCount(1)
    \/ RevokeCommit(1) \/ UnwarnReply(1)
    \/ /\ wp[1].pc = "idle" /\ warnings = InitialLedger
       /\ (JoinUpsert(1) \/ ForceCommand(1) \/ CallbackCommand(1) \/ MainStart(1))
    \/ JoinCancel(1) \/ JoinSchedule(1)
    \/ ForceSetMsg(1) \/ ForceCancel(1)
    \/ AcceptUpdate(1) \/ RejectBan(1) \/ RejectUpdate(1)
    \/ WaitPostpone(1) \/ WaitCancel(1) \/ WaitSchedule(1)
    \/ MainUpdate(1) \/ MainCancel(1) \/ MainBan(1)
    \/ GateReply(1)
    \/ Leave

SpecAuth == Init /\ [][NextAuth]_vars

\* the handler serves a /candidate or a callback (not a join event)
ServesCommand(r) ==
    r.pc \in {"i_reply", "f_setmsg", "f_cancel", "a_update", "k_ban", "k_update",
              "w_postpone", "w_cancel", "w_sched"}

\* C26: a force-review command or a decision callback (accept, reject, wait)
\* aimed at a user who has no candidate row, or whose row's status is not
\* candidate when the handler reads it, is a benign no-op: the
\* handler only answers and returns; it changes no candidate row and no task,
\* renders no decision prompt and makes no ban or invite-link call.
C26_NotCandidateIsNoOp ==
    [][\A h \in IProcs :
        ih'[h] # ih[h] =>
          /\ (/\ ih[h].pc = "idle" /\ ServesCommand(ih'[h])
              /\ ~IsCandidate(candidates, ih'[h].user))
                => (/\ ih'[h].pc = "i_reply"
                    /\ candidates' = candidates /\ tasks' = tasks
                    /\ member' = member)
          /\ ih[h].pc = "i_reply"
                => (/\ ih'[h].pc = "idle"
                    /\ candidates' = candidates /\ tasks' = tasks
                    /\ member' = member)]_vars

\* an accept click by a level 2 actor on a candidate who was already invited,
\* with a reminder still pending, is being answered
C26_Witness ==
    \E h \in IProcs :
        /\ ih[h].pc = "i_reply" /\ ih[h].cmd = "accept" /\ ih[h].level = 2
        /\ HasCandidate(candidates, ih[h].user)
        /\ get_candidate(candidates, ih[h].user).status = "invited"
        /\ PendingReviews(tasks, ih[h].user) # {}

\* C27: authorization gates every mutation: a step of a warn or unwarn command
\* writes the ledger only when the actor's level, as read by the command, is
\* at least 3, every record is stored with the issuer and the issuer's level
\* of its command (hence issued_by_level >= 3), and a step of a force-review
\* or of an accept, reject or wait decision changes a candidate row, a task
\* or the membership only when the actor's level is at least 2.
C27_AuthorizationGates ==
    [][/\ \A p \in WProcs :
            (wp'[p] # wp[p] /\ warnings' # warnings) =>
               /\ wp[p].level >= 3
               /\ Len(warnings') > Len(warnings) =>
                     /\ warnings'[Len(warnings')].issued_by_level = wp[p].level
                     /\ warnings'[Len(warnings')].issued_by = wp[p].actor
       /\ \A i \in 1 .. Len(warnings') : warnings'[i].issued_by_level >= 3
       /\ \A h \in IProcs :
            (/\ ih'[h] # ih[h]
             /\ (candidates' # candidates \/ tasks' # tasks \/ member' # member)
             /\ ServesCommand(ih[h]))
                => ih[h].level >= 2
       /\ \A h \in IProcs :
            (ih[h].pc = "idle" /\ ServesCommand(ih'[h]) /\ ih'[h].level < 2)
                => (/\ ih'[h].pc = "i_reply"
                    /\ candidates' = candidates /\ tasks' = tasks
                    /\ member' = member)]_vars

\* an accept click by an actor of level 1 on a user who is candidate, with the
\* reminder pending, is being answered with the refusal
C27_Witness ==
    \E h \in IProcs :
        /\ ih[h].pc = "i_reply" /\ ih[h].cmd = "accept" /\ ih[h].level = 1
        /\ IsCandidate(candidates, ih[h].user)
        /\ PendingReviews(tasks, ih[h].user) # {}

(* ---------------------------------------------------------------------- *)
(* revoke_latest_warning, warning_status_label, update_candidate_status    *)
(* ---------------------------------------------------------------------- *)
\* C28: when the user has at least one active record at the call's time,
\* revoke_latest_warning selects the active record of that user with the
\* greatest (issued_at, id), its UPDATE sets is_revoked, revoked_at = now_ts
\* and revoked_by on that record and changes no other record of any user,
\* nothing else writes the ledger before the count, and the count it returns
\* is one lower than the number of active records before the UPDATE.
C28_RevokesExactlyLatest ==
    [][\A p \in WProcs :
        LET u == wp[p].target
            t == wp[p].now_ts
            act == ActiveIds(warnings, u, t)
        IN  /\ (wp[p].pc = "r_select" /\ wp'[p].pc # "r_select" /\ act # {}) =>
                  /\ wp'[p].pc = "r_update"
                  /\ wp'[p].wid \in act
                  /\ \A j \in act \ {wp'[p].wid} :
                        \/ warnings[j].issued_at < warnings[wp'[p].wid].issued_at
                        \/ /\ warnings[j].issued_at = warnings[wp'[p].wid].issued_at
                           /\ warnings[j].id < warnings[wp'[p].wid].id
            /\ (wp[p].pc = "r_update" /\ wp'[p].pc # "r_update") =>
                  /\ Len(warnings') = Len(warnings)
                  /\ \A i \in 1 .. Len(warnings) :
                        i # wp[p].wid => warnings'[i] = warnings[i]
                  /\ warnings'[wp[p].wid] =
                        [warnings[wp[p].wid] EXCEPT !.is_revoked = TRUE,
                                                    !.revoked_at = t,
                                                    !.revoked_by = wp[p].actor]
                  /\ ActiveIds(warnings', u, t) = act \ {wp[p].wid}
                  /\ wp[p].wid \in act
            /\ (wp[p].pc = "r_count" /\ wp[p].wid # NULL) =>
                  /\ warnings' = warnings
                  /\ wp'[p].pc # "r_count" =>
                        /\ warnings[wp[p].wid].is_revoked
                        /\ wp'[p].cnt = Cardinality(act)
                        /\ wp'[p].cnt =
                             Cardinality(act \cup {wp[p].wid}) - 1]_vars

\* an unwarn has revoked the latest of the user's three active records and
\* returns 2; the records of the other user are in the ledger
C28_Witness ==
    \E p \in WProcs :
        /\ wp[p].pc = "r_commit" /\ wp[p].wid # NULL
        /\ wp[p].cnt = 2
        /\ warnings[wp[p].wid].is_revoked
        /\ warnings[wp[p].wid].revoked_at = wp[p].now_ts
        /\ \A i \in ActiveIds(warnings, wp[p].target, wp[p].now_ts) : i < wp[p].wid
        /\ \E i \in 1 .. Len(warnings) : warnings[i].user_id = OtherUser

\* warning_status_label called on any record at any time
MaxLabelRows == 2

label_expiry_first(warning, now_arg, clock) ==
    LET now_ts == IF now_arg # NULL THEN now_arg ELSE clock
    IN  IF warning.expires_at <= now_ts THEN "expired"
        ELSE IF warning.is_revoked THEN "revoked"
        ELSE "active"

\* warning_status_label(warning, now=None); clock is what _now_ts() returns;
\* "revoked", "expired" and "active" stand for the three labels returned
warning_status_label(warning, now_arg, clock) ==
    LET now_ts == IF now_arg # NULL THEN now_arg ELSE clock
    IN  IF warning.is_revoked THEN "revoked"
        ELSE IF warning.expires_at <= now_ts THEN "expired"
        ELSE "active"

\* the times at which a label is asked: around the expiry of a record issued
\* at 0 and of one issued a second later
LabelTimes == {0, _expiry_ts(0) - 1, _expiry_ts(0), _expiry_ts(0) + 1}

\* rows the table warnings can hold: created by create_warning, possibly
\* revoked by revoke_latest_warning
LabelRows ==
    {[id |-> 0, user_id |-> 1, issued_at |-> t, expires_at |-> _expiry_ts(t),
      issued_by |-> Moderator, issued_by_level |-> ModeratorLevel,
      is_revoked |-> rev, revoked_at |-> IF rev THEN t ELSE NULL,
      revoked_by |-> IF rev THEN Moderator ELSE NULL] :
        t \in {0, 1}, rev \in BOOLEAN}

LabelLedgers ==
    UNION {{[i \in 1 .. n |-> [f[i] EXCEPT !.id = i]] : f \in [1 .. n -> LabelRows]} :
              n \in 1 .. MaxLabelRows}

InitLabel ==
    /\ now \in LabelTimes
    /\ ticks = 0
    /\ warnings \in LabelLedgers
    /\ wlock = 0
    /\ wp = [p \in WProcs |-> IdleProc]
    /\ banned = {}
    /\ candidates = {}
    /\ tasks = <<>>
    /\ member = [u \in CandUsers |-> "none"]
    /\ ih = [h \in IProcs |-> IdleHandler]
    /\ sp = [s \in Pollers |-> IdlePoller]

\* a caller asks for the label of a stored record, with now given or not,
\* and for count_active_warnings of the record's user at the same time
LabelCall(p) ==
    /\ wp[p].pc = "idle"
    /\ \E i \in 1 .. Len(warnings), now_arg \in LabelTimes \cup {NULL} :
         LET t == IF now_arg # NULL THEN now_arg ELSE now
         IN  wp' = [wp EXCEPT ![p] =
                      [pc |-> "l_done", target |-> warnings[i].user_id,
                       now_ts |-> t, wid |-> i,
                       cnt |-> count_active_warnings(warnings, warnings[i].user_id, t),
                       label |-> warning_status_label(warnings[i], now_arg, now)]]
    /\ UNCHANGED <<now, ticks, warnings, wlock, banned, ivars>>

\* the caller uses the label and returns
LabelReturn(p) ==
    /\ wp[p].pc = "l_done"
    /\ wp' = [wp EXCEPT ![p] = IdleProc]
    /\ UNCHANGED <<now, ticks, warnings, wlock, banned, ivars>>

NextLabel == LabelCall(1) \/ LabelReturn(1)

SpecLabel == InitLabel /\ [][NextLabel]_vars

\* C29: warning_status_label agrees with the active predicate for every
\* record and every now: it returns active exactly when the record is not
\* revoked and expires_at > now, which are the records count_active_warnings
\* counts at that now; it returns revoked whenever is_revoked is set, also for
\* an expired record; and it returns expired for a record that is not revoked
\* with expires_at <= now, the boundary expires_at = now included.
C29_LabelAgreesWithActive ==
    \A p \in WProcs :
        wp[p].pc = "l_done" =>
            LET w == warnings[wp[p].wid]
                t == wp[p].now_ts
            IN  /\ (wp[p].label = "active") = (~w.is_revoked /\ w.expires_at > t)
                /\ (wp[p].label = "active")
                      = (count_active_warnings(<<w>>, w.user_id, t) = 1)
                /\ w.is_revoked => wp[p].label = "revoked"
                /\ (~w.is_revoked /\ w.expires_at <= t) => wp[p].label = "expired"
                /\ (~w.is_revoked /\ w.expires_at = t) => wp[p].label = "expired"
                /\ wp[p].cnt =
                      Cardinality({i \in 1 .. Len(warnings) :
                                      /\ warnings[i].user_id = w.user_id
                                      /\ ~warnings[i].is_revoked
                                      /\ warnings[i].expires_at > t})

\* the label of a revoked record is asked at the very second it expires,
\* while another record of the user is still active
C29_Witness ==
    \E p \in WProcs :
        /\ wp[p].pc = "l_done"
        /\ warnings[wp[p].wid].is_revoked
        /\ warnings[wp[p].wid].expires_at = wp[p].now_ts
        /\ wp[p].label = "revoked"
        /\ wp[p].cnt = 1

\* update_candidate_status called on any table, with any arguments
OtherModerator == 11
OtherLink == 2
ReviewTimes == {5, 7}

\* rows the table candidates can hold for a user: never reviewed, reviewed
\* with a link (accept), reviewed without a link (reject)
CandidateRows(user_id) ==
    {[user_id |-> user_id, status |-> st, created_at |-> 0,
      review_due_at |-> ReviewDelay, wait_count |-> wc,
      last_buttons_msg_id |-> msg, reviewed_by |-> rv[1], reviewed_at |-> rv[2],
      invite_link |-> rv[3]] :
        st \in {"candidate", "invited", "kicked", "accepted"}, wc \in {0, 1},
        msg \in {NULL, PromptMsg},
        rv \in {<<NULL, NULL, NULL>>, <<Moderator, 5, InviteLink>>,
                <<Moderator, 5, NULL>>}}

\* the candidate's row, with or without a row of another user
CandidateTables ==
    {{r} : r \in CandidateRows(1)}
        \cup {{r, q} : r \in CandidateRows(1),
                       q \in {x \in CandidateRows(OtherUser) :
                                 x.status = "invited" /\ x.reviewed_by = Moderator
                                 /\ x.invite_link = InviteLink /\ x.wait_count = 0
                                 /\ x.last_buttons_msg_id = PromptMsg}}

InitTransition ==
    /\ now = 0
    /\ ticks = 0
    /\ warnings = InitialLedger
    /\ wlock = 0
    /\ wp = [p \in WProcs |-> IdleProc]
    /\ banned = {}
    /\ candidates \in CandidateTables
    /\ tasks = <<>>
    /\ member = [u \in CandUsers |-> "member"]
    /\ ih = [h \in IProcs |-> IdleHandler]
    /\ sp = [s \in Pollers |-> IdlePoller]

\* a caller invokes update_candidate_status(user_id, reception_chat_id,
\* status, reviewed_by=..., reviewed_at=..., invite_link=...); user 3 has no row
TransitionCall(h) ==
    /\ ih[h].pc = "idle"
    /\ \E u \in {1, OtherUser, 3}, st \in {"invited", "kicked", "accepted"},
          rb \in {NULL, OtherModerator}, ra \in {NULL} \cup ReviewTimes,
          link \in {NULL, OtherLink} :
         ih' = [ih EXCEPT ![h] = [pc |-> "t_update", user |-> u, at |-> 0,
                                  status |-> st, reviewed_by |-> rb,
                                  reviewed_at |-> ra, invite_link |-> link]]
    /\ UNCHANGED <<now, ticks, wvars, candidates, tasks, member, sp>>

\* await db.execute(UPDATE candidates SET ...); await db.commit()
TransitionUpdate(h) ==
    /\ ih[h].pc = "t_update"
    /\ candidates' = update_candidate_status(candidates, ih[h].user, ih[h].status,
                                             ih[h].reviewed_by, ih[h].reviewed_at,
                                             ih[h].invite_link)
    /\ ih' = [ih EXCEPT ![h] = IdleHandler]
    /\ UNCHANGED <<now, ticks, wvars, tasks, member, sp>>

NextTransition ==
    \/ TransitionCall(1) \/ TransitionUpdate(1)
    \/ MainStart(1) \/ MainUpdate(1) \/ MainCancel(1) \/ MainBan(1)

SpecTransition == InitTransition /\ [][NextTransition]_vars

(* ---------------------------------------------------------------------- *)
(* Decisions whose platform call fails                                      *)
(* ---------------------------------------------------------------------- *)
\* accept: create_chat_invite_link raises TelegramBadRequest or
\* TelegramForbiddenError; the handler is about to answer that it cannot
\* create the link
AcceptLinkFails(h) ==
    /\ ih[h].pc = "idle"
    /\ ModeratorLevel >= InviteMinLevel
    /\ \E u \in CandUsers :
         /\ IsCandidate(candidates, u)
         /\ ih' = [ih EXCEPT ![h] = [pc |-> "d_reply", user |-> u, at |-> now,
                                     failed |-> "create_chat_invite_link"]]
    /\ UNCHANGED <<now, ticks, wvars, candidates, tasks, member, sp>>

\* reject: ban_chat_member raises TelegramBadRequest or
\* TelegramForbiddenError; the handler is about to answer that it cannot kick
RejectBanFails(h) ==
    /\ ih[h].pc = "k_ban"
    /\ ih' = [ih EXCEPT ![h] = [pc |-> "d_reply", user |-> ih[h].user,
                                at |-> ih[h].at, failed |-> "ban_chat_member"]]
    /\ UNCHANGED <<now, ticks, wvars, candidates, tasks, member, sp>>

\* await query.message.answer(...); await query.answer(); return
DecisionReply(h) ==
    /\ ih[h].pc = "d_reply"
    /\ ih' = [ih EXCEPT ![h] = IdleHandler]
    /\ UNCHANGED <<now, ticks, wvars, candidates, tasks, member, sp>>

\* joins and leaves of the reception chat while two decision callbacks run
NextDecision ==
    \/ Leave
    \/ JoinUpsert(1) \/ JoinCancel(1) \/ JoinSchedule(1)
    \/ \E h \in IProcs :
          \/ CallbackStart(h)
          \/ AcceptLinkFails(h) \/ AcceptUpdate(h)
          \/ RejectBan(h) \/ RejectBanFails(h) \/ RejectUpdate(h)
          \/ WaitPostpone(h) \/ WaitCancel(h) \/ WaitSchedule(h)
          \/ DecisionReply(h)

SpecDecision == Init /\ [][NextDecision]_vars

(* ---------------------------------------------------------------------- *)
(* Re-joins of users who already have a row                                 *)
(* ---------------------------------------------------------------------- *)
JoinTime == 10

\* the user has no row yet, or any row created at time 0; the user is in the
\* reception chat or has left it
InitRejoin ==
    /\ now = JoinTime
    /\ ticks = 0
    /\ warnings = InitialLedger
    /\ wlock = 0
    /\ wp = [p \in WProcs |-> IdleProc]
    /\ banned = {}
    /\ candidates \in {{}} \cup {{r} : r \in CandidateRows(1)}
    /\ tasks = <<>>
    /\ member \in [CandUsers -> {"member", "left"}]
    /\ ih = [h \in IProcs |-> IdleHandler]
    /\ sp = [s \in Pollers |-> IdlePoller]

\* the handlers of handlers/invite.py, one at a time, while members leave
NextRejoin ==
    \/ InviteTick
    \/ Leave
    \/ HandlerStep(1)

SpecRejoin == InitRejoin /\ [][NextRejoin]_vars

\* the columns update_candidate_status has no assignment for
KeptColumns(r) ==
    <<r.user_id, r.created_at, r.review_due_at, r.wait_count, r.last_buttons_msg_id>>

\* C30: update_candidate_status sets the status and overwrites reviewed_by,
\* reviewed_at and invite_link only where a value is provided; omitted ones
\* keep their previous values; created_at, review_due_at, wait_count and
\* last_buttons_msg_id are never changed by it, nor is any other row; in
\* particular the transition invited -> accepted on the join of the main chat
\* keeps the reviewer, review time and invite link recorded at accept.
C30_TransitionFrame ==
    [][\A h \in IProcs :
        (ih[h].pc \in {"t_update", "m_update"} /\ ih'[h] # ih[h]) =>
          LET u == ih[h].user
              given == IF ih[h].pc = "t_update"
                       THEN <<ih[h].status, ih[h].reviewed_by, ih[h].reviewed_at,
                              ih[h].invite_link>>
                       ELSE <<"accepted", NULL, NULL, NULL>>
          IN  /\ \A r \in candidates : r.user_id # u => r \in candidates'
              /\ Cardinality(candidates') = Cardinality(candidates)
              /\ ~HasCandidate(candidates, u) => candidates' = candidates
              /\ HasCandidate(candidates, u) =>
                   \E old \in candidates, new \in candidates' :
                      /\ old.user_id = u /\ new.user_id = u
                      /\ new.status = given[1]
                      /\ new.reviewed_by =
                            (IF given[2] = NULL THEN old.reviewed_by ELSE given[2])
                      /\ new.reviewed_at =
                            (IF given[3] = NULL THEN old.reviewed_at ELSE given[3])
                      /\ new.invite_link =
                            (IF given[4] = NULL THEN old.invite_link ELSE given[4])
                      /\ KeptColumns(new) = KeptColumns(old)
                      /\ (ih[h].pc = "m_update" /\ old.status = "invited") =>
                            /\ new.status = "accepted"
                            /\ new.reviewed_by = old.reviewed_by
                            /\ new.reviewed_at = old.reviewed_at
                            /\ new.invite_link = old.invite_link]_vars

\* the invited candidate joined the main chat: the row is accepted and still
\* holds the reviewer, the review time and the link of the accept
C30_Witness ==
    \E h \in IProcs :
        /\ ih[h].pc = "m_cancel"
        /\ HasCandidate(candidates, ih[h].user)
        /\ LET c == get_candidate(candidates, ih[h].user)
           IN  /\ c.status = "accepted"
               /\ c.reviewed_by = Moderator /\ c.reviewed_at = 5
               /\ c.invite_link = InviteLink
               /\ c.wait_count = 1 /\ c.last_buttons_msg_id = PromptMsg

BatchSet(batch) == {batch[k] : k \in DOMAIN batch}

\* task i comes before task j in ascending order of (due time, id)
DueBefore(i, j) ==
    \/ tasks[i].run_at < tasks[j].run_at
    \/ tasks[i].run_at = tasks[j].run_at /\ tasks[i].id < tasks[j].id

\* C32: fetch_due_tasks(limit) returns pending tasks with run_at <= now, in
\* ascending order of (run_at, id); it returns min(limit, number of due
\* tasks) of them, and every due task left out comes after every returned
\* task in that order; the scheduler claims the head of the batch, so the
\* tasks still to claim all come after the claimed one.
C32_FetchOrderAndLimit ==
    [][/\ (sp[1].pc = "poll" /\ sp'[1].pc = "claim") =>
            LET batch == sp'[1].batch
                due == DueIds(tasks, now)
                limit == sp'[1].limit
            IN  /\ BatchSet(batch) \subseteq due
                /\ Len(batch) = IF Cardinality(due) > limit THEN limit
                                ELSE Cardinality(due)
                /\ \A k, l \in DOMAIN batch :
                      k < l => DueBefore(batch[k], batch[l])
                /\ \A i \in due \ BatchSet(batch), k \in DOMAIN batch :
                      DueBefore(batch[k], i)
       /\ (sp[1].pc = "claim" /\ sp'[1].pc = "claimed") =>
            /\ sp'[1].cur = Head(sp[1].batch)
            /\ sp'[1].batch = Tail(sp[1].batch)
            /\ \A k \in DOMAIN sp'[1].batch :
                  DueBefore(sp'[1].cur, sp'[1].batch[k])]_vars

\* three tasks are due and the limit is 2: the batch held the two earliest,
\* the task with the lowest id was due latest and is left pending while the
\* first task of the batch is done and the second is claimed
C32_Witness ==
    /\ Len(tasks) = 3
    /\ tasks[1].status = "pending" /\ tasks[1].run_at = 5
    /\ tasks[2].status = "done" /\ tasks[2].run_at = 0
    /\ tasks[3].status = "running" /\ tasks[3].run_at = 0
    /\ sp[1].pc = "claimed" /\ sp[1].cur = 3 /\ sp[1].batch = <<>>

\* task i exists and its status is one of sts
TaskIn(i, sts) == i \in DOMAIN tasks /\ tasks[i].status \in sts

\* C33: with a fairly scheduled scheduler loop whose handlers return, every
\* task that is pending with run_at <= now eventually is no longer pending,
\* also when more tasks are due than the limit of a fetch, and every running
\* task eventually is done or failed.
C33_DueTasksAreProcessed ==
    \A i \in 1 .. MaxDue + 1 :
        /\ (TaskIn(i, {"pending"}) /\ tasks[i].run_at <= now)
              ~> TaskIn(i, {"running", "done", "failed", "cancelled"})
        /\ TaskIn(i, {"running"}) ~> TaskIn(i, {"done", "failed"})

\* three tasks were due at once, more than the limit of a fetch: one is
\* done, one has failed, and the last is running
C33_Witness ==
    /\ Len(tasks) = 3
    /\ \A i \in DOMAIN tasks : tasks[i].run_at <= now /\ tasks[i].tries = 1
    /\ {tasks[i].status : i \in DOMAIN tasks} = {"done", "failed", "running"}
    /\ \E i \in DOMAIN tasks : tasks[i].status = "failed"

\* C34 as stated, read in favour of the code: whenever no handler is running
\* and no review-due task of the candidate is being handled, a candidate in
\* status candidate who is a member of the reception chat has a pending
\* review-due task or a recorded decision prompt (any prompt recorded since
\* the join counts), also after a review-due task has failed.
C34_CandidateNotStranded ==
    \A u \in CandUsers :
        (/\ IsCandidate(candidates, u)
         /\ member[u] = "member"
         /\ \A h \in IProcs : ih[h].pc = "idle"
         /\ \A i \in DOMAIN tasks :
               tasks[i].user_id = u => tasks[i].status # "running")
            => \/ PendingReviews(tasks, u) # {}
               \/ get_candidate(candidates, u).last_buttons_msg_id # NULL

\* the only review-due task of a present candidate has failed (the prompt
\* could not be sent): no task is pending, no prompt was ever recorded, and
\* the scheduler loops are polling
C34_Witness ==
    \E u \in CandUsers :
        /\ IsCandidate(candidates, u)
        /\ member[u] = "member"
        /\ get_candidate(candidates, u).last_buttons_msg_id = NULL
        /\ Len(tasks) = 1
        /\ tasks[1].user_id = u /\ tasks[1].status = "failed"
        /\ \A h \in IProcs : ih[h].pc = "idle"
        /\ \A s \in Pollers : sp[s].pc = "poll"

\* C35 as stated: in every reachable state at most one review-due task of
\* the reception chat is pending per user, for every interleaving of join
\* events, wait callbacks and force-review commands for the same user.
C35_OnePendingReviewPerUser ==
    \A u \in CandUsers : Cardinality(PendingReviews(tasks, u)) <= 1

\* a wait callback overlapped the join handler of the same user: both
\* handlers have ended, two review-due tasks of the user are pending, one
\* due 3h after the join and one 36h after the click
C35_Witness ==
    \E u \in CandUsers :
        /\ PendingReviews(tasks, u) = {1, 2}
        /\ {tasks[1].run_at, tasks[2].run_at} = {ReviewDelay, WaitDelay}
        /\ IsCandidate(candidates, u)
        /\ get_candidate(candidates, u).wait_count = 1
        /\ \A h \in IProcs : ih[h].pc = "idle"

\* C36: in every reachable state the tries of a task is 0 or 1, it is 0
\* exactly when the task is pending or cancelled and 1 exactly when the task
\* is running, done or failed, and a scheduler loop is in the handler of a
\* task only while the task is running after that loop's claim; with one
\* scheduler loop and with two loops polling the same queue.
C36_HandlerRunsAtMostOnce ==
    /\ \A i \in DOMAIN tasks :
          /\ tasks[i].tries \in {0, 1}
          /\ tasks[i].tries = 0 <=> tasks[i].status \in {"pending", "cancelled"}
          /\ tasks[i].tries = 1 <=> tasks[i].status \in {"running", "done", "failed"}
    /\ \A s \in Pollers :
          sp[s].pc \in {"h_member", "h_setmsg", "mark_done", "mark_failed"}
              => /\ tasks[sp[s].cur].status = "running"
                 /\ \A r \in Pollers \ {s} :
                       sp[r].pc \in {"h_member", "h_setmsg", "mark_done", "mark_failed"}
                           => sp[r].cur # sp[s].cur

\* both loops fetched the same task: the first loop claimed it and marked it
\* done, the claim of the second loop then returned false, tries is 1
C36_Witness ==
    \E i \in DOMAIN tasks :
        /\ tasks[i].status = "done" /\ tasks[i].tries = 1
        /\ sp[1].pc = "poll"
        /\ sp[2].pc = "claimed" /\ sp[2].cur = i /\ ~sp[2].locked

\* C37: a task that is cancelled after a scheduler loop fetched it and before
\* that loop claimed it is never handled: the claim leaves the task as it is
\* and returns false, the loop goes on to its next task without entering the
\* handler, and a cancelled task stays cancelled with tries unchanged.
C37_CancelledBeforeClaimNotHandled ==
    [][/\ \A s \in Pollers :
            /\ (sp[s].pc = "claim" /\ sp'[s].pc = "claimed"
                    /\ tasks[Head(sp[s].batch)].status = "cancelled")
                  => /\ ~sp'[s].locked
                     /\ tasks' = tasks
            /\ (sp[s].pc = "claimed" /\ sp'[s] # sp[s]
                    /\ tasks[sp[s].cur].status = "cancelled")
                  => /\ sp'[s] = NextTask(sp[s])
                     /\ candidates' = candidates
                     /\ tasks' = tasks
       /\ \A i \in DOMAIN tasks :
            tasks[i].status = "cancelled" => tasks'[i] = tasks[i]
       /\ \A s \in Pollers :
            sp'[s].pc \in {"h_member", "h_setmsg", "mark_done", "mark_failed"}
                => tasks'[sp'[s].cur].status # "cancelled"]_vars

\* a scheduler loop fetched a due task, a handler cancelled it, and the
\* claim of the loop has returned false
C37_Witness ==
    \E s \in Pollers :
        /\ sp[s].pc = "claimed"
        /\ ~sp[s].locked
        /\ tasks[sp[s].cur].status = "cancelled"
        /\ tasks[sp[s].cur].tries = 0
        /\ tasks[sp[s].cur].run_at <= now

\* this step is postpone_candidate_review for the user
PostponeStep(u) ==
    \E h \in IProcs :
        ih[h].pc = "w_postpone" /\ ih'[h].pc = "w_cancel" /\ ih[h].user = u

\* C38: once a user's row exists it stays, its created_at never changes and
\* its wait_count never decreases; wait_count changes only in a
\* postpone_candidate_review step, by +1; upsert_candidate_on_join on an
\* existing row sets status candidate and the new review_due_at, clears
\* last_buttons_msg_id, reviewed_by, reviewed_at and invite_link, and keeps
\* wait_count and created_at.
C38_WaitCountAndCreatedAtKept ==
    [][\A u \in CandUsers :
        HasCandidate(candidates, u) =>
            /\ HasCandidate(candidates', u)
            /\ LET old == get_candidate(candidates, u)
                   new == get_candidate(candidates', u)
               IN  /\ new.created_at = old.created_at
                   /\ new.wait_count >= old.wait_count
                   /\ new.wait_count # old.wait_count
                         => PostponeStep(u) /\ new.wait_count = old.wait_count + 1
                   /\ UpsertStep(u) =>
                         /\ new.status = "candidate"
                         /\ new.review_due_at = now + 3 * 60 * 60
                         /\ new.last_buttons_msg_id = NULL
                         /\ new.reviewed_by = NULL
                         /\ new.reviewed_at = NULL
                         /\ new.invite_link = NULL]_vars

\* a user whose row was created at time 0 and postponed once has re-joined
\* at time 10: the row is reset to candidate with the new due time and keeps
\* wait_count 1 and created_at 0
C38_Witness ==
    \E h \in IProcs :
        /\ ih[h].pc = "j_cancel"
        /\ HasCandidate(candidates, ih[h].user)
        /\ get_candidate(candidates, ih[h].user).status = "candidate"
        /\ get_candidate(candidates, ih[h].user).wait_count = 1
        /\ get_candidate(candidates, ih[h].user).created_at = 0
        /\ get_candidate(candidates, ih[h].user).review_due_at = JoinTime + ReviewDelay
        /\ now = JoinTime

\* the status of the user's row, or "none" while the user has no row
StatusOf(tbl, u) == IF HasCandidate(tbl, u) THEN get_candidate(tbl, u).status ELSE "none"

\* C39: a decision whose platform call fails (create_chat_invite_link during
\* accept, ban_chat_member during reject) writes nothing: the failing step
\* and the reply after it leave the candidates table, the task table and the
\* membership unchanged; nothing is written before the platform call; a row
\* gets status invited only in the update of an accept whose link was
\* created, and then holds an invite link; every invited row holds an invite
\* link; a row gets status kicked only in the update of a reject, which is
\* reached only by a ban_chat_member call that excluded the user; accept and
\* reject create and cancel no task.
C39_FailedDecisionWritesNothing ==
    [][/\ \A h \in IProcs :
            /\ (ih'[h].pc = "d_reply" \/ ih[h].pc = "d_reply") /\ ih'[h] # ih[h]
                  => /\ candidates' = candidates
                     /\ tasks' = tasks
                     /\ member' = member
            /\ (ih[h].pc = "idle" /\ ih'[h].pc \in {"a_update", "k_ban"})
                  => candidates' = candidates /\ tasks' = tasks
            /\ (ih[h].pc # "k_update" /\ ih'[h].pc = "k_update")
                  => /\ ih[h].pc = "k_ban"
                     /\ member'[ih[h].user] = "kicked"
                     /\ candidates' = candidates
            /\ (ih[h].pc \in {"a_update", "k_ban", "k_update"} /\ ih'[h] # ih[h])
                  => tasks' = tasks
       /\ \A u \in CandUsers :
            /\ (StatusOf(candidates', u) = "invited"
                    /\ StatusOf(candidates, u) # "invited")
                  => \E h \in IProcs :
                        /\ ih[h].pc = "a_update" /\ ih'[h].pc = "idle"
                        /\ ih[h].user = u
            /\ StatusOf(candidates', u) = "invited"
                  => get_candidate(candidates', u).invite_link # NULL
            /\ (StatusOf(candidates', u) = "kicked"
                    /\ StatusOf(candidates, u) # "kicked")
                  => \E h \in IProcs :
                        /\ ih[h].pc = "k_update" /\ ih'[h].pc = "idle"
                        /\ ih[h].user = u]_vars

\* ban_chat_member has failed for a reject: the handler is about to answer,
\* the row is an unreviewed candidate, the user is still a member, and the
\* review-due task enqueued by the join is still pending
C39_Witness ==
    \E h \in IProcs :
        /\ ih[h].pc = "d_reply"
        /\ ih[h].failed = "ban_chat_member"
        /\ IsCandidate(candidates, ih[h].user)
        /\ get_candidate(candidates, ih[h].user).reviewed_by = NULL
        /\ get_candidate(candidates, ih[h].user).reviewed_at = NULL
        /\ get_candidate(candidates, ih[h].user).invite_link = NULL
        /\ member[ih[h].user] = "member"
        /\ PendingReviews(tasks, ih[h].user) # {}

====
